---------------------------- MODULE Spec2Model ----------------------------
(***************************************************************************)
(* Model of the content rendering pipeline of the marketing engine:        *)
(*   tools/content/render_asset.py      (alias normaliser, overlay         *)
(*                                        compositor, SVG mutator,         *)
(*                                        generate_html mode cascade)      *)
(*   backend/services/render_service.py (provider fallback orchestrator)   *)
(*   backend/services/figma_render_service.py, canva_render_service.py     *)
(*                                                                         *)
(* Python strings are TLA+ strings (TLC evaluates Len, SubSeq and \o on    *)
(* them).  A Python dict is a function whose DOMAIN is the set of keys;    *)
(* where the code iterates a dict, the model iterates its keys in the      *)
(* order they occur in a fixed insertion-order sequence.  A Python value   *)
(* that may be a str or a list is a tagged record (StrV / ListV).          *)
(***************************************************************************)
EXTENDS Integers, Sequences, FiniteSets, TLC

VARIABLES
    \* ---- tools/content/render_asset.py: generate_html and its inputs
    content_type,            \* generate_html argument
    content_data,            \* generate_html argument (dict)
    template_assets,         \* generate_html argument (list of dicts)
    structure_zones,         \* generate_html argument (dict field -> zone)
    visual_layout_override,  \* generate_html argument ("" is None)
    brand_context,           \* generate_html argument (dict)
    hashOrder,               \* iteration order of the alias sets in this interpreter process
    tplRenderOk,             \* whether Jinja2's template.render succeeds on this input
    html,                    \* outcome of the last generate_html call
    produced,                \* every outcome generate_html gave for this input so far
    normalized,              \* outcome of the last _normalize_visual_data call
    \* ---- _render_overlay_html._zone_html
    zone_text, zone, zone_out,
    \* ---- _replace_svg_text
    svg_root, replacements, svg_out,
    \* ---- backend/services/render_service.py
    items,                   \* ContentItem rows: id -> [status, rendered_html]
    design_source,           \* template.design_source ("" provider: none)
    env,                     \* what the outside world does during the call in progress
    last_call,               \* record of the last service call and how it ended
    renders,                 \* number of successful renders per item
    \* ---- backend/routers/settings.py: Canva OAuth (PKCE)
    _canva_pkce_store,       \* the dict, as its entries in insertion order
    clock,                   \* time.time()
    threads,                 \* the request handler each pool thread is running
    org_config,              \* org_id -> stored canva_config
    issued,                  \* the states get_canva_authorize_url stored, with org and time
    popped,                  \* the keys some callback's _pkce_pop found in the store
    handed,                  \* the verifiers _pkce_pop returned, in order
    calls,                   \* the handler calls that ended, and how
    \* ---- backend/services/canva_service.py: wait_for_autofill, wait_for_export
    wait_fn,                 \* the function running
    max_wait,                \* its max_wait argument, in ticks
    start,                   \* start = time.time()
    wtime,                   \* time.time()
    delay,                   \* the local delay
    wait_pc,                 \* where the call stands
    last_status,             \* the status the last poll reported
    slept,                   \* the delays time.sleep was called with, in order
    wait_outcome,            \* how the call ended
    \* ---- backend/routers/research.py, backend/services/research_service.py
    research_weeks,          \* org_id -> the ResearchWeek row of today's week_start, or NoWeek
    background_tasks,        \* the tasks add_task queued, and the ones a worker started
    script_run,              \* the pipeline run started by scripts/run_weekly_research.py
    utcnow,                  \* datetime.utcnow(), in minutes
    requests_made,           \* number of requests and script runs so far
    last_response,           \* what the last trigger request was answered
    \* ---- backend/services/linkedin_analytics.py: sync_metrics
    platform_metrics,        \* the rows of the table, committed
    db_new,                  \* the session's added objects, not flushed
    db_loaded,               \* the rows the session loaded, as it changed them
    li_posts,                \* the posts _fetch_recent_posts returned
    li_pos,                  \* the post the loop is at
    li_before,               \* the table when the sync began
    li_result,               \* how sync_metrics ended
    \* ---- backend/services/figma_render_service.py: the SVG cache
    figma_config,            \* org_id -> the token of its figma_config, or none
    figma_cache,             \* cache file name -> content and mtime (and who fetched it)
    fig_time,                \* time.time()
    fig_renders,             \* number of render calls so far
    fig_last                 \* what the last render call got as its SVG

htmlVars == <<content_type, content_data, template_assets, structure_zones,
              visual_layout_override, brand_context, hashOrder, tplRenderOk,
              html, produced, normalized>>
zoneVars == <<zone_text, zone, zone_out>>
svgVars  == <<svg_root, replacements, svg_out>>
svcVars  == <<items, design_source, env, last_call, renders>>
oauthVars == <<_canva_pkce_store, clock, threads, org_config, issued, popped, handed, calls>>
waitVars == <<wait_fn, max_wait, start, wtime, delay, wait_pc, last_status, slept, wait_outcome>>
resVars == <<research_weeks, background_tasks, script_run, utcnow, requests_made, last_response>>
liVars == <<platform_metrics, db_new, db_loaded, li_posts, li_pos, li_before, li_result>>
figVars == <<figma_config, figma_cache, fig_time, fig_renders, fig_last>>
extVars  == <<oauthVars, waitVars, resVars, liVars, figVars>>
vars     == <<htmlVars, zoneVars, svgVars, svcVars, extVars>>

-----------------------------------------------------------------------------
(* Python helpers *)

StartsWith(s, p) == Len(p) <= Len(s) /\ SubSeq(s, 1, Len(p)) = p

\* Python's  p in s  on strings
Contains(s, p) == \E i \in 0..(Len(s) - Len(p)) : SubSeq(s, i + 1, i + Len(p)) = p

LowerAlphabet == "abcdefghijklmnopqrstuvwxyz"
UpperAlphabet == "ABCDEFGHIJKLMNOPQRSTUVWXYZ"

AlphaIndex(alphabet, c) ==
    IF \E i \in 1..Len(alphabet) : SubSeq(alphabet, i, i) = c
    THEN CHOOSE i \in 1..Len(alphabet) : SubSeq(alphabet, i, i) = c
    ELSE 0

LowerChar(c) ==
    LET i == AlphaIndex(UpperAlphabet, c)
    IN  IF i = 0 THEN c ELSE SubSeq(LowerAlphabet, i, i)

UpperChar(c) ==
    LET i == AlphaIndex(LowerAlphabet, c)
    IN  IF i = 0 THEN c ELSE SubSeq(UpperAlphabet, i, i)

IsAlpha(c) == AlphaIndex(LowerAlphabet, c) # 0 \/ AlphaIndex(UpperAlphabet, c) # 0

\* str.lower()
RECURSIVE Lower(_)
Lower(s) ==
    IF s = "" THEN ""
    ELSE LowerChar(SubSeq(s, 1, 1)) \o Lower(SubSeq(s, 2, Len(s)))

\* str.title(): a letter that follows a non-letter is upper-cased, every other
\* letter lower-cased
RECURSIVE TitleFrom(_, _)
TitleFrom(s, prevAlpha) ==
    IF s = "" THEN ""
    ELSE LET c == SubSeq(s, 1, 1)
         IN  (IF prevAlpha THEN LowerChar(c) ELSE UpperChar(c))
             \o TitleFrom(SubSeq(s, 2, Len(s)), IsAlpha(c))

Title(s) == TitleFrom(s, FALSE)

\* html.escape(str(text)) (quote=True)
EscapeChar(c) ==
    CASE c = "&" -> "&amp;"
      [] c = "<" -> "&lt;"
      [] c = ">" -> "&gt;"
      [] c = "\"" -> "&quot;"
      [] c = "'" -> "&#x27;"
      [] OTHER -> c

RECURSIVE Escape(_)
Escape(s) ==
    IF s = "" THEN ""
    ELSE EscapeChar(SubSeq(s, 1, 1)) \o Escape(SubSeq(s, 2, Len(s)))

\* A str value and a list value of a content_data dict
StrV(s)  == [t |-> "str",  s |-> s,  l |-> <<>>]
ListV(l) == [t |-> "list", s |-> "", l |-> l]
\* Python's None (JSON null)
NoneV    == [t |-> "none", s |-> "", l |-> <<>>]

\* Python truthiness of such a value
Truthy(v) == IF v.t = "str" THEN v.s # "" ELSE v.l # <<>>

EmptyDict == [k \in {} |-> StrV("")]

\* dict.get(key, default)
Get(d, key, default) == IF key \in DOMAIN d THEN d[key] ELSE default

\* d with d[key] = value
Put(d, key, value) == [k \in DOMAIN d \cup {key} |-> IF k = key THEN value ELSE d[k]]

\* The keys of dict d in iteration (insertion) order, given the sequence order
\* in which keys were inserted
RECURSIVE KeysInOrder(_, _)
KeysInOrder(d, order) ==
    IF order = <<>> THEN <<>>
    ELSE (IF Head(order) \in DOMAIN d THEN <<Head(order)>> ELSE <<>>)
         \o KeysInOrder(d, Tail(order))

Range(f) == {f[i] : i \in DOMAIN f}

\* Every sequence that lists the elements of S once
Orderings(S) ==
    {p \in [1..Cardinality(S) -> S] : \A i, j \in DOMAIN p : i # j => p[i] # p[j]}

\* str.replace(old, new), old non-empty
RECURSIVE ReplaceAll(_, _, _)
ReplaceAll(s, old, new) ==
    IF Len(s) < Len(old) THEN s
    ELSE IF SubSeq(s, 1, Len(old)) = old
         THEN new \o ReplaceAll(SubSeq(s, Len(old) + 1, Len(s)), old, new)
         ELSE SubSeq(s, 1, 1) \o ReplaceAll(SubSeq(s, 2, Len(s)), old, new)

-----------------------------------------------------------------------------
(* tools/content/render_asset.py: constants *)

VISUAL_TYPES == {"carousel", "meet_the_team", "meme", "case_study", "infografia"}

_METADATA_FIELDS == {"_model", "_tokens"}

_FIELD_ALIASES ==
    [carousel |->
        [title |-> {},
         cta |-> {"cierre", "closing", "cta_text", "call_to_action"},
         social_caption |-> {"copylinkedin", "copy_linkedin", "linkedin_caption",
                             "caption", "descripcion"},
         social_hashtags |-> {"hashtags"}],
     meet_the_team |->
        [title |-> {},
         person_name |-> {"nombre", "name", "nombre_persona"},
         role |-> {"cargo", "puesto", "titulo", "position"},
         quote |-> {"cita", "frase", "testimonio"},
         bio |-> {"biografia", "about", "descripcion"},
         fun_fact |-> {"dato_curioso", "curiosidad"},
         photo_url |-> {"foto", "imagen", "photo"},
         social_caption |-> {"copylinkedin", "copy_linkedin", "caption"},
         social_hashtags |-> {"hashtags"}],
     meme |->
        [title |-> {},
         top_text |-> {"texto_superior", "texto_arriba", "text_top", "setup"},
         bottom_text |-> {"texto_inferior", "texto_abajo", "text_bottom",
                          "punchline", "remate"},
         image_prompt |-> {"prompt_imagen", "imagen", "image"},
         context |-> {"contexto", "explicacion"},
         social_caption |-> {"copylinkedin", "copy_linkedin", "caption"},
         social_hashtags |-> {"hashtags"}],
     case_study |->
        [title |-> {},
         client |-> {"cliente", "empresa", "company"},
         challenge |-> {"problema", "desafio", "reto", "pain_point"},
         solution |-> {"solucion", "estrategia", "approach"},
         results |-> {"resultados", "impacto", "impact"},
         industry |-> {"industria", "sector", "vertical"},
         testimonial |-> {"testimonio", "quote", "cita"},
         social_caption |-> {"copylinkedin", "copy_linkedin", "caption"},
         social_hashtags |-> {"hashtags"}],
     infografia |->
        [title |-> {},
         social_caption |-> {"copylinkedin", "copy_linkedin", "caption"},
         social_hashtags |-> {"hashtags"}]]

_ARRAY_FIELD_TYPES ==
    [carousel |-> "slides", infografia |-> "slides", case_study |-> "key_metrics"]

TEMPLATE_MAP ==
    [carousel      |-> [file |-> "carousel.html",      format |-> "pdf", width |-> 1080, height |-> 1080],
     meet_the_team |-> [file |-> "meet_the_team.html", format |-> "png", width |-> 1080, height |-> 1350],
     meme          |-> [file |-> "meme.html",          format |-> "png", width |-> 1080, height |-> 1350],
     case_study    |-> [file |-> "caso_exito.html",    format |-> "png", width |-> 1080, height |-> 1350],
     infografia    |-> [file |-> "infografia.html",    format |-> "png", width |-> 1080, height |-> 1350]]

_DESIGN_ASSET_TYPES == {"design_background", "design_cover", "design_slide", "design_cta"}

_SVG_ASSET_TYPES == {"design_svg", "design_svg_cover", "design_svg_slide", "design_svg_cta"}

-----------------------------------------------------------------------------
(* Field alias normaliser *)

\* The order in which the keys of the modelled content_data dicts were inserted
InsertionOrder ==
    <<"title", "cta", "cierre", "closing", "slides", "key_metrics", "tema">>

\* The loop  for alias in aliases  of _resolve_field: `order` lists the aliases
\* that can be keys of the data in the iteration order of the alias set (an alias
\* that is no key of the data is skipped by the loop whatever its position)
RECURSIVE ResolveAliases(_, _, _)
ResolveAliases(data, aliases, order) ==
    IF order = <<>> THEN StrV("")
    ELSE IF /\ Head(order) \in aliases
            /\ Head(order) \in DOMAIN data
            /\ Truthy(data[Head(order)])
         THEN data[Head(order)]
         ELSE ResolveAliases(data, aliases, Tail(order))

\* Mutant: the aliases are tried before the canonical name
ResolveFieldAliasFirst(data, field, aliases, order) ==
    IF Truthy(ResolveAliases(data, aliases, order))
    THEN ResolveAliases(data, aliases, order)
    ELSE IF field \in DOMAIN data /\ Truthy(data[field]) THEN data[field] ELSE StrV("")

_resolve_field(data, field, aliases, order) ==
    IF field \in DOMAIN data /\ Truthy(data[field])
    THEN data[field]
    ELSE ResolveAliases(data, aliases, order)

\* The first alias (in iteration order) whose value equals the resolved one:
\* the source key recorded as consumed
RECURSIVE ConsumedAlias(_, _, _, _)
ConsumedAlias(data, aliases, order, resolved) ==
    IF order = <<>> THEN {}
    ELSE IF /\ Head(order) \in aliases
            /\ Head(order) \in DOMAIN data
            /\ data[Head(order)] = resolved
         THEN {Head(order)}
         ELSE ConsumedAlias(data, aliases, Tail(order), resolved)

\* items built from the remaining flat text fields, in dict order
RECURSIVE BuildItems(_, _, _, _)
BuildItems(ctype, data, keys, skip) ==
    IF keys = <<>> THEN <<>>
    ELSE LET key   == Head(keys)
             value == data[key]
             rest  == BuildItems(ctype, data, Tail(keys), skip)
         IN  IF \/ key \in skip
                \/ StartsWith(key, "_")
                \/ ~Truthy(value)
                \/ value.t # "str"
             THEN rest
             ELSE LET headline == Title(ReplaceAll(ReplaceAll(key, "_", " "), "-", " "))
                  IN  IF ctype = "case_study"
                      THEN <<[metric |-> headline, value |-> value.s]>> \o rest
                      ELSE <<[headline |-> headline, body |-> value.s]>> \o rest

_normalize_visual_data(ctype, data, order) ==
    IF ctype \notin DOMAIN _FIELD_ALIASES
    THEN data
    ELSE
    LET aliases_map  == _FIELD_ALIASES[ctype]
        fields       == DOMAIN aliases_map
        has_array    == ctype \in DOMAIN _ARRAY_FIELD_TYPES
        array_field  == IF has_array THEN _ARRAY_FIELD_TYPES[ctype] ELSE ""
        resolved(f)  == _resolve_field(data, f, aliases_map[f], order)
    IN  IF /\ has_array
           /\ array_field \in DOMAIN data
           /\ data[array_field].t = "list"
           /\ Truthy(data[array_field])
        THEN \* the array exists: data as-is, aliases resolved for missing fields
             LET filled == {f \in fields :
                              /\ (f \notin DOMAIN data \/ ~Truthy(data[f]))
                              /\ Truthy(resolved(f))}
             IN  [k \in DOMAIN data \cup filled |->
                    IF k \in filled THEN resolved(k) ELSE data[k]]
        ELSE LET mapped_source_keys ==
                     UNION {IF Truthy(resolved(f))
                            THEN (IF f \in DOMAIN data THEN {f} ELSE {})
                                 \cup ConsumedAlias(data, aliases_map[f], order, resolved(f))
                            ELSE {} : f \in fields}
                 skip  == fields \cup _METADATA_FIELDS
                          \cup UNION {aliases_map[f] : f \in fields}
                          \cup mapped_source_keys
                 built == BuildItems(ctype, data, KeysInOrder(data, InsertionOrder), skip)
                 metas == _METADATA_FIELDS \cap DOMAIN data
                 keys  == fields \cup (IF has_array THEN {array_field} ELSE {}) \cup metas
             IN  [k \in keys |->
                    IF k \in metas THEN data[k]
                    ELSE IF has_array /\ k = array_field THEN ListV(built)
                    ELSE resolved(k)]

-----------------------------------------------------------------------------
(* Local files *)

PROJECT_ROOT  == "/app"
TMP_DIR       == PROJECT_ROOT \o "/.tmp"
TEMPLATES_DIR == PROJECT_ROOT \o "/vt"
RENDERS_DIR   == TMP_DIR \o "/renders"

_ALLOWED_DIRS == {TEMPLATES_DIR, RENDERS_DIR, TMP_DIR}

\* The components of a path, "." dropped and ".." applied: Path.resolve() on an
\* absolute path (the modelled file system has no symbolic links)
RECURSIVE ResolveParts(_, _, _)
ResolveParts(s, stack, cur) ==
    LET push == IF cur = "" \/ cur = "." THEN stack
                ELSE IF cur = ".."
                     THEN (IF stack = <<>> THEN stack ELSE SubSeq(stack, 1, Len(stack) - 1))
                     ELSE Append(stack, cur)
    IN  IF s = "" THEN push
        ELSE IF SubSeq(s, 1, 1) = "/"
             THEN ResolveParts(SubSeq(s, 2, Len(s)), push, "")
             ELSE ResolveParts(SubSeq(s, 2, Len(s)), stack, cur \o SubSeq(s, 1, 1))

RECURSIVE JoinPath(_)
JoinPath(parts) ==
    IF parts = <<>> THEN "" ELSE "/" \o Head(parts) \o JoinPath(Tail(parts))

Resolve(path) ==
    LET parts == ResolveParts(path, <<>>, "")
    IN  IF parts = <<>> THEN "/" ELSE JoinPath(parts)

\* The files of the modelled machine, and those among them that are not
\* well-formed XML
ExistingFiles ==
    {"/app/.tmp/renders/a.svg", "/app/vt/bad.svg", "/app/vt/bg.png",
     "/app/.tmp_keys/k.svg", "/etc/passwd"}
MalformedFiles == {"/app/vt/bad.svg"}
\* Remote URLs that cannot be fetched
UnreachableUrls == {"https://down/x.svg"}

\* TRUE: the path passes; FALSE: PermissionError
_validate_local_path(path) ==
    \E allowed \in _ALLOWED_DIRS : StartsWith(path, allowed)

\* The result of _resolve_image_url: the URL itself, or a data URI that embeds
\* the bytes of a local file
_resolve_image_url(url) ==
    IF url = "" THEN [embedded |-> FALSE, ref |-> url]
    ELSE IF StartsWith(url, "file://")
         THEN LET file_path == ReplaceAll(url, "file://", "")
              IN  IF Resolve(file_path) \in ExistingFiles
                  THEN [embedded |-> TRUE, ref |-> Resolve(file_path)]
                  ELSE [embedded |-> FALSE, ref |-> url]
         ELSE [embedded |-> FALSE, ref |-> url]

\* _load_svg_content: [ok, exc, src, read]; src names the content loaded (the
\* resolved path of the file, or the URL fetched), read the local files read
LoadLocal(path) ==
    IF ~_validate_local_path(path)
    THEN [ok |-> FALSE, exc |-> "PermissionError", src |-> "", read |-> {}]
    ELSE IF path \notin ExistingFiles
         THEN [ok |-> FALSE, exc |-> "FileNotFoundError", src |-> "", read |-> {}]
         ELSE [ok |-> TRUE, exc |-> "", src |-> path, read |-> {path}]

_load_svg_content(url) ==
    IF StartsWith(url, "file://")
    THEN LoadLocal(Resolve(ReplaceAll(url, "file://", "")))
    ELSE IF StartsWith(url, "http")
         THEN IF url \in UnreachableUrls
              THEN [ok |-> FALSE, exc |-> "URLError", src |-> "", read |-> {}]
              ELSE [ok |-> TRUE, exc |-> "", src |-> url, read |-> {}]
         ELSE LoadLocal(Resolve(url))

-----------------------------------------------------------------------------
(* Template assets *)

\* designs / svgs: asset_type -> file_url over the assets of the wanted types
\* that have a file_url; a later asset of a type replaces an earlier one
RECURSIVE CollectAssets(_, _, _)
CollectAssets(assets, types, acc) ==
    IF assets = <<>> THEN acc
    ELSE LET a == Head(assets)
         IN  CollectAssets(Tail(assets), types,
                 IF a.asset_type \in types /\ a.file_url # ""
                 THEN Put(acc, a.asset_type, a.file_url)
                 ELSE acc)

NoAssets == [k \in {} |-> ""]

_get_design_assets(assets, ctype) ==
    LET designs == CollectAssets(assets, _DESIGN_ASSET_TYPES, NoAssets)
    IN  IF ctype # "carousel" /\ "design_background" \in DOMAIN designs THEN designs
        ELSE IF ctype = "carousel" /\ "design_slide" \in DOMAIN designs THEN designs
        ELSE NoAssets

\* Mutant: any SVG asset qualifies, whatever the content type
GetSvgAssetsAnyType(assets, ctype) ==
    CollectAssets(assets, _SVG_ASSET_TYPES, NoAssets)

_get_svg_assets(assets, ctype) ==
    LET svgs == CollectAssets(assets, _SVG_ASSET_TYPES, NoAssets)
    IN  IF ctype # "carousel" /\ "design_svg" \in DOMAIN svgs THEN svgs
        ELSE IF ctype = "carousel" /\ "design_svg_slide" \in DOMAIN svgs THEN svgs
        ELSE NoAssets

\* assets_dict of generate_html: every asset, keyed by type
RECURSIVE AssetsDict(_, _)
AssetsDict(assets, acc) ==
    IF assets = <<>> THEN acc
    ELSE AssetsDict(Tail(assets), Put(acc, Head(assets).asset_type, Head(assets).file_url))

-----------------------------------------------------------------------------
(* Overlay mode *)

\* Mutant: the cover rectangle's coordinates default to the fixed defaults
\* instead of the text zone's own coordinates
CoverRectFixedDefaults(z, x, y, w, h) ==
    [kind |-> "cover", top |-> Get(z, "bg_y", 0), left |-> Get(z, "bg_x", 0),
     width |-> Get(z, "bg_width", 400), height |-> Get(z, "bg_height", 100),
     background |-> Get(z, "bg_fill", ""), z_index |-> 1]

\* The rectangle that covers the original text of the design
CoverRect(z, x, y, w, h) ==
    [kind |-> "cover", top |-> Get(z, "bg_y", y), left |-> Get(z, "bg_x", x),
     width |-> Get(z, "bg_width", w), height |-> Get(z, "bg_height", h),
     background |-> Get(z, "bg_fill", ""), z_index |-> 1]

\* One text zone: the cover rectangle (if any), then the text div
_zone_html(text, z) ==
    IF text = "" \/ DOMAIN z = {} THEN <<>>
    ELSE
    LET x       == Get(z, "x", 0)
        y       == Get(z, "y", 0)
        w       == Get(z, "width", 400)
        h       == Get(z, "height", 100)
        bg_fill == Get(z, "bg_fill", "")
        cover   == CoverRect(z, x, y, w, h)
        textdiv == [kind |-> "text", top |-> y, left |-> x, width |-> w, height |-> h,
                    font_size      |-> Get(z, "font_size", 20),
                    font_weight    |-> Get(z, "font_weight", 400),
                    font_family    |-> Get(z, "font_family", "Inter, sans-serif"),
                    color          |-> Get(z, "color", "#000000"),
                    align          |-> Get(z, "align", "left"),
                    line_height    |-> Get(z, "line_height", "1.4"),
                    text_transform |-> Get(z, "text_transform", "none"),
                    padding        |-> Get(z, "padding", 0),
                    z_index |-> 2, span |-> Escape(text)]
    IN  (IF bg_fill # "" /\ bg_fill # "transparent" THEN <<cover>> ELSE <<>>)
        \o <<textdiv>>

\* The order of the fields of template.structure, hence of zones.items()
ZoneOrder == <<"title", "cta", "slide_headline", "slide_body", "key_metrics", "quote">>

\* The values of a slide / metric dict in insertion order
ItemValues(item) ==
    IF "metric" \in DOMAIN item THEN <<item.metric, item.value>>
    ELSE <<item.headline, item.body>>

RECURSIVE JoinStr(_, _)
JoinStr(parts, sep) ==
    IF parts = <<>> THEN ""
    ELSE IF Len(parts) = 1 THEN Head(parts)
    ELSE Head(parts) \o sep \o JoinStr(Tail(parts), sep)

RECURSIVE FlatMap(_, _)
FlatMap(Op(_), seq) ==
    IF seq = <<>> THEN <<>> ELSE Op(Head(seq)) \o FlatMap(Op, Tail(seq))

EmptyZones == [k \in {} |-> [x |-> 0]]

_render_overlay_html(ctype, data, design_assets, zones, config) ==
    IF ctype = "carousel"
    THEN
      LET slide_asset == Get(design_assets, "design_slide", "")
          cover_bg == _resolve_image_url(Get(design_assets, "design_cover", slide_asset))
          slide_bg == _resolve_image_url(slide_asset)
          cta_bg   == _resolve_image_url(Get(design_assets, "design_cta", slide_asset))
          slides   == Get(data, "slides", ListV(<<>>)).l
          FieldZone(f) ==
              IF f \in DOMAIN zones /\ f \in DOMAIN data /\ Truthy(data[f])
              THEN _zone_html(data[f].s, zones[f]) ELSE <<>>
          slide_headline_zone == Get(zones, "slide_headline", EmptyZones)
          slide_body_zone     == Get(zones, "slide_body", EmptyZones)
          SlidePage(slide) ==
              <<[bg |-> slide_bg,
                 divs |-> (IF DOMAIN slide_headline_zone # {} /\ slide.headline # ""
                           THEN _zone_html(slide.headline, slide_headline_zone) ELSE <<>>)
                          \o
                          (IF DOMAIN slide_body_zone # {} /\ slide.body # ""
                           THEN _zone_html(slide.body, slide_body_zone) ELSE <<>>)]>>
      IN  [width |-> config.width, height |-> config.height,
           pages |-> <<[bg |-> cover_bg,
                        divs |-> FieldZone("title") \o FieldZone("social_caption")]>>
                     \o FlatMap(SlidePage, slides)
                     \o <<[bg |-> cta_bg, divs |-> FieldZone("cta")]>>]
    ELSE
      LET bg_url == _resolve_image_url(Get(design_assets, "design_background", ""))
          ItemZone(f) ==
              \* the source joins the values with " \u2014 " (an em dash)
              LET One(item) == _zone_html(JoinStr(ItemValues(item), " - "), zones[f])
              IN  FlatMap(One, data[f].l)
          FieldZone(f) ==
              IF f \notin DOMAIN data THEN <<>>
              ELSE IF data[f].t = "str"
                   THEN (IF data[f].s # "" THEN _zone_html(data[f].s, zones[f]) ELSE <<>>)
                   ELSE ItemZone(f)
      IN  [width |-> config.width, height |-> config.height,
           pages |-> <<[bg |-> bg_url,
                        divs |-> FlatMap(FieldZone, KeysInOrder(zones, ZoneOrder))]>>]

\* The local files whose bytes an overlay document embeds
OverlayReads(doc) ==
    {doc.pages[i].bg.ref : i \in {j \in DOMAIN doc.pages : doc.pages[j].bg.embedded}}

-----------------------------------------------------------------------------
(* SVG template mode *)

\* brand of generate_html: the defaults, overridden by the non-empty entries of
\* brand_context
BrandDefaults ==
    [name |-> "", logo_url |-> "", website |-> "", accent_color |-> "#0066FF"]

BuildBrand(ctx) ==
    [k \in DOMAIN BrandDefaults \cup {c \in DOMAIN ctx : ctx[c] # ""} |->
        IF k \in DOMAIN ctx /\ ctx[k] # "" THEN ctx[k] ELSE BrandDefaults[k]]

\* _build_replacements on content_data: its str values, then the brand fields
_build_replacements(data, brand) ==
    LET strs == {k \in DOMAIN data : data[k].t = "str"}
    IN  [k \in strs \cup {"brand_name", "brand_website"} |->
            IF k = "brand_name" THEN Get(brand, "name", "")
            ELSE IF k = "brand_website" THEN Get(brand, "website", "")
            ELSE data[k].s]

\* _build_replacements on one slide dict (its values are strings)
BuildSlideReplacements(slide, brand) ==
    [k \in DOMAIN slide \cup {"brand_name", "brand_website"} |->
        IF k = "brand_name" THEN Get(brand, "name", "")
        ELSE IF k = "brand_website" THEN Get(brand, "website", "")
        ELSE slide[k]]

RECURSIVE MapSeq(_, _)
MapSeq(Op(_), seq) ==
    IF seq = <<>> THEN <<>> ELSE <<Op(Head(seq))>> \o MapSeq(Op, Tail(seq))

\* The loads and text replacements of _render_svg_template in program order.
\* A step loads one URL and replaces text once per entry of repls; a page is
\* the pair (content loaded, replacements) that _replace_svg_text is applied to.
\* The first load or parse that fails ends the call with its exception.
RECURSIVE RunSvgSteps(_, _, _)
RunSvgSteps(steps, pages, reads) ==
    IF steps = <<>>
    THEN [kind |-> "html", exc |-> "", pages |-> pages, reads |-> reads]
    ELSE LET step   == Head(steps)
             loaded == _load_svg_content(step.url)
             PageOf(r) == [svg |-> loaded.src, repl |-> r]
         IN  IF ~loaded.ok
             THEN [kind |-> "raise", exc |-> loaded.exc, pages |-> <<>>, reads |-> reads]
             ELSE IF step.repls # <<>> /\ loaded.src \in MalformedFiles
                  THEN [kind |-> "raise", exc |-> "ParseError", pages |-> <<>>,
                        reads |-> reads \cup loaded.read]
                  ELSE RunSvgSteps(Tail(steps), pages \o MapSeq(PageOf, step.repls),
                                   reads \cup loaded.read)

_render_svg_template(ctype, data, svg_assets, config, brand) ==
    IF ctype = "carousel"
    THEN LET slides    == Get(data, "slides", ListV(<<>>)).l
             slide_url == Get(svg_assets, "design_svg_slide", "")
             cover_url == Get(svg_assets, "design_svg_cover", slide_url)
             cta_url   == Get(svg_assets, "design_svg_cta", slide_url)
             whole     == <<_build_replacements(data, brand)>>
             SlideRepl(slide) == BuildSlideReplacements(slide, brand)
         IN  RunSvgSteps(
                 (IF cover_url # "" THEN <<[url |-> cover_url, repls |-> whole]>> ELSE <<>>)
                 \o (IF slide_url # ""
                     THEN <<[url |-> slide_url, repls |-> MapSeq(SlideRepl, slides)]>>
                     ELSE <<>>)
                 \o (IF cta_url # "" THEN <<[url |-> cta_url, repls |-> whole]>> ELSE <<>>),
                 <<>>, {})
    ELSE RunSvgSteps(<<[url   |-> Get(svg_assets, "design_svg", ""),
                        repls |-> <<_build_replacements(data, brand)>>]>>, <<>>, {})

-----------------------------------------------------------------------------
(* generate_html *)

\* Custom layouts that Jinja2 cannot compile
BadSyntaxLayouts == {"{% if %}"}

Raise(exc, stage, mode, reads) ==
    [kind |-> "raise", exc |-> exc, stage |-> stage, mode |-> mode,
     body |-> <<>>, reads |-> reads]

Html(mode, body, reads) ==
    [kind |-> "html", exc |-> "", stage |-> "done", mode |-> mode,
     body |-> body, reads |-> reads]

\* The rendering modes, after validation and normalisation
RenderModes(ctype, data, layout, assets, brand, zones, renderOk) ==
    LET config        == TEMPLATE_MAP[ctype]
        svg_assets    == _get_svg_assets(assets, ctype)
        design_assets == _get_design_assets(assets, ctype)
    IN  IF DOMAIN svg_assets # {}
        THEN LET r == _render_svg_template(ctype, data, svg_assets, config, brand)
             IN  IF r.kind = "html"
                 THEN Html("svg", [width |-> config.width, height |-> config.height,
                                   pages |-> r.pages], r.reads)
                 ELSE Raise(r.exc, "render", "svg", r.reads)
        ELSE IF DOMAIN design_assets # {} /\ DOMAIN zones # {}
        THEN LET doc == _render_overlay_html(ctype, data, design_assets, zones, config)
             IN  Html("overlay", doc, OverlayReads(doc))
        ELSE LET mode == IF layout # "" THEN "custom" ELSE "default"
             IN  IF layout \in BadSyntaxLayouts
                 THEN Raise("TemplateSyntaxError", "compile", mode, {})
                 ELSE IF ~renderOk
                      THEN Raise("ValueError", "render", mode, {})
                      ELSE Html(mode,
                                [template |-> IF layout # "" THEN layout ELSE config.file,
                                 data |-> data, css_override |-> "",
                                 assets |-> AssetsDict(assets, NoAssets),
                                 brand |-> brand],
                                {})

\* Mutant: the array field is not validated
GenerateHtmlNoArrayCheck(ctype, data, layout, assets, brand_ctx, zones, order, renderOk) ==
    IF ctype \notin DOMAIN TEMPLATE_MAP \/ DOMAIN data = {}
    THEN Raise("ValueError", "validate", "none", {})
    ELSE RenderModes(ctype,
                     IF ctype \in DOMAIN _FIELD_ALIASES
                     THEN _normalize_visual_data(ctype, data, order) ELSE data,
                     layout, assets, BuildBrand(brand_ctx), zones, renderOk)

generate_html(ctype, data, layout, assets, brand_ctx, zones, order, renderOk) ==
    IF ctype \notin DOMAIN TEMPLATE_MAP
    THEN Raise("ValueError", "validate", "none", {})
    ELSE IF DOMAIN data = {}
    THEN Raise("ValueError", "validate", "none", {})
    ELSE LET norm == IF ctype \in DOMAIN _FIELD_ALIASES
                     THEN _normalize_visual_data(ctype, data, order)
                     ELSE data
             array_missing ==
                 /\ ctype \in DOMAIN _ARRAY_FIELD_TYPES
                 /\ LET af == _ARRAY_FIELD_TYPES[ctype]
                    IN  af \notin DOMAIN norm \/ ~Truthy(norm[af])
         IN  IF array_missing
             THEN Raise("ValueError", "validate", "none", {})
             ELSE RenderModes(ctype, norm, layout, assets, BuildBrand(brand_ctx),
                              zones, renderOk)

-----------------------------------------------------------------------------
(* Inputs of the HTML generation runs *)

MaxKeys   == 3      \* keys of a content_data dict
MaxAssets == 2      \* assets of a template

InputKeys == Range(InsertionOrder)

\* The aliases among the input keys: hashOrder orders them
InputAliases == {"cierre", "closing"}

Slide1  == [headline |-> "H1", body |-> "b1"]
Metric1 == [metric |-> "ROI", value |-> "3x"]

\* The non-empty and the empty value a key takes in the inputs
FullValue(k) ==
    CASE k = "title"       -> StrV("T")
      [] k = "cta"         -> StrV("go")
      [] k = "cierre"      -> StrV("fin")
      [] k = "closing"     -> StrV("end")
      [] k = "slides"      -> ListV(<<Slide1>>)
      [] k = "key_metrics" -> ListV(<<Metric1>>)
      [] OTHER             -> StrV("a<b")

EmptyValue(k) ==
    IF k \in {"slides", "key_metrics"} THEN ListV(<<>>)
    ELSE IF k = "cta" THEN NoneV
    ELSE StrV("")

DataOver(keys) ==
    {[k \in keys |-> IF full[k] THEN FullValue(k) ELSE EmptyValue(k)] :
        full \in [keys -> BOOLEAN]}

DataSet ==
    UNION {DataOver(keys) : keys \in {K \in SUBSET InputKeys : Cardinality(K) <= MaxKeys}}

NormTypes == {"carousel", "meet_the_team", "case_study", "blog_post"}

Zone1 == [x |-> 40, y |-> 60, width |-> 500, bg_fill |-> "#ffffff", bg_x |-> 30]
Zone2 == [x |-> 10, y |-> 900]

\* (template_assets, structure_zones) of the runs that vary content_data
NormTemplates ==
    {[assets |-> <<>>, zones |-> EmptyZones],
     [assets |-> <<[asset_type |-> "design_slide", file_url |-> "https://cdn/slide.png"],
                   [asset_type |-> "design_background", file_url |-> "https://cdn/bg.png"]>>,
      zones  |-> [cta |-> Zone1, title |-> Zone2]]}

AssetChoices ==
    {[asset_type |-> "design_svg",        file_url |-> "file:///app/.tmp/renders/a.svg"],
     [asset_type |-> "design_svg",        file_url |-> ""],
     [asset_type |-> "design_svg",        file_url |-> "file:///app/.tmp/../../etc/passwd"],
     [asset_type |-> "design_svg",        file_url |-> "https://down/x.svg"],
     [asset_type |-> "design_svg_slide",  file_url |-> "/app/.tmp_keys/k.svg"],
     [asset_type |-> "design_svg_slide",  file_url |-> "file:///app/vt/bad.svg"],
     [asset_type |-> "design_background", file_url |-> "file:///etc/passwd"],
     [asset_type |-> "design_background", file_url |-> ""],
     [asset_type |-> "design_slide",      file_url |-> "file:///app/vt/bg.png"],
     [asset_type |-> "logo",              file_url |-> "https://cdn/logo.png"]}

AssetLists == UNION {[1..n -> AssetChoices] : n \in 0..MaxAssets}

ModeTypes == {"carousel", "meme", "blog_post"}

ModeData ==
    {EmptyDict,
     [title |-> StrV("T")],
     [title |-> StrV("T"), slides |-> ListV(<<Slide1>>), cierre |-> StrV("fin")]}

ModeZones == {EmptyZones, [title |-> Zone1, slide_body |-> Zone2]}

\* (visual_layout_override, tplRenderOk)
ModeLayouts ==
    {<<"", TRUE>>, <<"", FALSE>>, <<"<h1>{{ title }}</h1>", TRUE>>, <<"{% if %}", TRUE>>}

NoBrand == [k \in {} |-> ""]

NoOutcome ==
    [kind |-> "none", exc |-> "", stage |-> "", mode |-> "none", body |-> <<>>, reads |-> {}]

NotNormalized == [done |-> FALSE, value |-> EmptyDict]

-----------------------------------------------------------------------------
(* Initial values of the parts of the state a specification does not use *)

HtmlIdle ==
    /\ content_type = "" /\ content_data = EmptyDict /\ template_assets = <<>>
    /\ structure_zones = EmptyZones /\ visual_layout_override = ""
    /\ brand_context = NoBrand /\ hashOrder = <<>> /\ tplRenderOk = TRUE
    /\ html = NoOutcome /\ produced = {} /\ normalized = NotNormalized

ZoneIdle == zone_text = "" /\ zone = EmptyZones /\ zone_out = <<>>

SvgIdle == svg_root = <<>> /\ replacements = <<>> /\ svg_out = <<>>

SvcIdle ==
    /\ items = <<>> /\ design_source = <<>> /\ env = <<>>
    /\ last_call = <<>> /\ renders = <<>>

OAuthIdle ==
    /\ _canva_pkce_store = <<>> /\ clock = 0 /\ threads = <<>> /\ org_config = <<>>
    /\ issued = {} /\ popped = {} /\ handed = <<>> /\ calls = {}

WaitIdle == wait_fn = "" /\ max_wait = 0 /\ start = 0 /\ wtime = 0 /\ delay = 0 /\ wait_pc = "" /\ last_status = "" /\ slept = <<>> /\ wait_outcome = <<>>

ResIdle == research_weeks = <<>> /\ background_tasks = <<>> /\ script_run = <<>> /\ utcnow = 0 /\ requests_made = 0 /\ last_response = <<>>

LiIdle == platform_metrics = {} /\ db_new = <<>> /\ db_loaded = <<>> /\ li_posts = <<>> /\ li_pos = 0 /\ li_before = {} /\ li_result = <<>>

FigIdle == figma_config = <<>> /\ figma_cache = <<>> /\ fig_time = 0 /\ fig_renders = 0 /\ fig_last = <<>>

ExtIdle == OAuthIdle /\ WaitIdle /\ ResIdle /\ LiIdle /\ FigIdle

\* For each of the later parts: the other parts at rest, and left as they are
OAuthOthersIdle == HtmlIdle /\ ZoneIdle /\ SvgIdle /\ SvcIdle /\ WaitIdle /\ ResIdle /\ LiIdle /\ FigIdle
OAuthFrame == UNCHANGED <<htmlVars, zoneVars, svgVars, svcVars, waitVars, resVars, liVars, figVars>>
WaitOthersIdle == HtmlIdle /\ ZoneIdle /\ SvgIdle /\ SvcIdle /\ OAuthIdle /\ ResIdle /\ LiIdle /\ FigIdle
WaitFrame == UNCHANGED <<htmlVars, zoneVars, svgVars, svcVars, oauthVars, resVars, liVars, figVars>>
ResOthersIdle == HtmlIdle /\ ZoneIdle /\ SvgIdle /\ SvcIdle /\ OAuthIdle /\ WaitIdle /\ LiIdle /\ FigIdle
ResFrame == UNCHANGED <<htmlVars, zoneVars, svgVars, svcVars, oauthVars, waitVars, liVars, figVars>>
LiOthersIdle == HtmlIdle /\ ZoneIdle /\ SvgIdle /\ SvcIdle /\ OAuthIdle /\ WaitIdle /\ ResIdle /\ FigIdle
LiFrame == UNCHANGED <<htmlVars, zoneVars, svgVars, svcVars, oauthVars, waitVars, resVars, figVars>>
FigOthersIdle == HtmlIdle /\ ZoneIdle /\ SvgIdle /\ SvcIdle /\ OAuthIdle /\ WaitIdle /\ ResIdle /\ LiIdle
FigFrame == UNCHANGED <<htmlVars, zoneVars, svgVars, svcVars, oauthVars, waitVars, resVars, liVars>>
\* (end of the rest and frame definitions)

-----------------------------------------------------------------------------
(* HTML generation runs *)

\* Runs that vary content_data (alias resolution)
InitNorm ==
    /\ content_data \in DataSet
    /\ content_type \in NormTypes
    /\ \E t \in NormTemplates : template_assets = t.assets /\ structure_zones = t.zones
    /\ visual_layout_override = ""
    /\ brand_context = NoBrand
    /\ hashOrder \in Orderings(InputAliases)
    /\ tplRenderOk = TRUE
    /\ html = NoOutcome /\ produced = {} /\ normalized = NotNormalized
    /\ ZoneIdle /\ SvgIdle /\ SvcIdle /\ ExtIdle

\* Runs that vary the template (assets, zones, layout)
InitMode ==
    /\ template_assets \in AssetLists
    /\ content_type \in ModeTypes
    /\ content_data \in ModeData
    /\ structure_zones \in ModeZones
    /\ \E l \in ModeLayouts : visual_layout_override = l[1] /\ tplRenderOk = l[2]
    /\ brand_context = [name |-> "Acme", website |-> ""]
    /\ hashOrder = <<"cierre", "closing">>
    /\ html = NoOutcome /\ produced = {} /\ normalized = NotNormalized
    /\ ZoneIdle /\ SvgIdle /\ SvcIdle /\ ExtIdle

\* One call of generate_html on the inputs
GenerateHtml ==
    /\ content_type # ""
    /\ html' = generate_html(content_type, content_data, visual_layout_override,
                             template_assets, brand_context, structure_zones,
                             hashOrder, tplRenderOk)
    /\ produced' = produced \cup {html'}
    /\ UNCHANGED <<content_type, content_data, template_assets, structure_zones,
                   visual_layout_override, brand_context, hashOrder, tplRenderOk,
                   normalized>>
    /\ UNCHANGED <<zoneVars, svgVars, svcVars, extVars>>

\* One call of _normalize_visual_data on the inputs
NormalizeVisualData ==
    /\ content_type # ""
    /\ normalized' = [done |-> TRUE,
                      value |-> _normalize_visual_data(content_type, content_data, hashOrder)]
    /\ UNCHANGED <<content_type, content_data, template_assets, structure_zones,
                   visual_layout_override, brand_context, hashOrder, tplRenderOk,
                   html, produced>>
    /\ UNCHANGED <<zoneVars, svgVars, svcVars, extVars>>

\* The interpreter is restarted: string hashing is seeded anew, so the alias sets
\* iterate in another order
Restart ==
    /\ content_type # ""
    /\ hashOrder' \in Orderings(InputAliases) \ {hashOrder}
    /\ UNCHANGED <<content_type, content_data, template_assets, structure_zones,
                   visual_layout_override, brand_context, tplRenderOk,
                   html, produced, normalized>>
    /\ UNCHANGED <<zoneVars, svgVars, svcVars, extVars>>

NextNorm == GenerateHtml \/ NormalizeVisualData \/ Restart

SpecNorm == InitNorm /\ [][NextNorm]_vars

NextMode == GenerateHtml

SpecMode == InitMode /\ [][NextMode]_vars

-----------------------------------------------------------------------------
(* Claims about HTML generation *)

\* The template has an asset of the given type with a non-empty file_url
HasAsset(atype) ==
    \E i \in DOMAIN template_assets :
        template_assets[i].asset_type = atype /\ template_assets[i].file_url # ""

QualifyingSvg ==
    HasAsset(IF content_type = "carousel" THEN "design_svg_slide" ELSE "design_svg")

QualifyingDesign ==
    HasAsset(IF content_type = "carousel" THEN "design_slide" ELSE "design_background")

PriorityMode ==
    IF QualifyingSvg THEN "svg"
    ELSE IF QualifyingDesign /\ DOMAIN structure_zones # {} THEN "overlay"
    ELSE IF visual_layout_override # "" THEN "custom"
    ELSE "default"

\* C1: once the input has passed validation, generate_html uses exactly the mode
\* the priority order SVG, overlay, custom HTML, default HTML selects: SVG iff a
\* qualifying SVG asset exists, else overlay iff a qualifying design asset and
\* non-empty zones exist, else custom iff a layout override is given, else default.
C1_ModePriority ==
    (html.kind # "none" /\ html.stage # "validate") => html.mode = PriorityMode

\* Overlay mode was used although a custom layout was given: the higher priority won
C1_Witness ==
    /\ html.kind = "html" /\ html.mode = "overlay"
    /\ visual_layout_override # ""

\* C4: generate_html is deterministic: every call on the same input gives the
\* same outcome, whatever order the alias sets iterate in.
C4_Deterministic == Cardinality(produced) <= 1

\* The canonical fields of the content type
CanonicalFields == DOMAIN _FIELD_ALIASES[content_type]

\* The non-empty values content_data holds under the aliases of field f
AliasValues(f) ==
    {content_data[a] : a \in {b \in _FIELD_ALIASES[content_type][f] \cap DOMAIN content_data :
                                Truthy(content_data[b])}}

CanonicalSet(f) == f \in DOMAIN content_data /\ Truthy(content_data[f])

\* content_data already holds the array field of the type as a non-empty list
ArrayGiven ==
    /\ content_type \in DOMAIN _ARRAY_FIELD_TYPES
    /\ _ARRAY_FIELD_TYPES[content_type] \in DOMAIN content_data
    /\ content_data[_ARRAY_FIELD_TYPES[content_type]].t = "list"
    /\ Truthy(content_data[_ARRAY_FIELD_TYPES[content_type]])

NormalizedIs(f, v) ==
    f \in DOMAIN normalized.value /\ normalized.value[f] = v

\* C5 as stated: canonical value first, else the value of an alias, else "".
C5_Original ==
    (normalized.done /\ content_type \in VISUAL_TYPES) =>
        \A f \in CanonicalFields :
            IF CanonicalSet(f) THEN NormalizedIs(f, content_data[f])
            ELSE IF AliasValues(f) # {}
                 THEN \E v \in AliasValues(f) : NormalizedIs(f, v)
                 ELSE NormalizedIs(f, StrV(""))

\* C5 amended: as stated, except that when content_data already holds the array
\* field as a non-empty list a field with no non-empty value is left as
\* content_data has it (absent, or its empty value) instead of being set to "".
C5_Amended ==
    (normalized.done /\ content_type \in VISUAL_TYPES) =>
        \A f \in CanonicalFields :
            IF CanonicalSet(f) THEN NormalizedIs(f, content_data[f])
            ELSE IF AliasValues(f) # {}
                 THEN \E v \in AliasValues(f) : NormalizedIs(f, v)
                 ELSE IF ArrayGiven
                      THEN IF f \in DOMAIN content_data
                           THEN NormalizedIs(f, content_data[f])
                           ELSE f \notin DOMAIN normalized.value
                      ELSE NormalizedIs(f, StrV(""))

\* A canonical key and one of its aliases both hold a value, and the canonical
\* value was kept
C5_Witness ==
    /\ normalized.done /\ content_type = "carousel"
    /\ CanonicalSet("cta") /\ AliasValues("cta") # {}
    /\ NormalizedIs("cta", content_data["cta"])

\* The path lies inside one of the allowed directories
InsideAllowed(path) ==
    \E d \in _ALLOWED_DIRS : path = d \/ StartsWith(path, d \o "/")

\* C8: every local file whose content generate_html read lies inside
\* TEMPLATES_DIR, RENDERS_DIR or TMP_DIR.
C8_ReadsConfined == \A f \in html.reads : InsideAllowed(f)

\* The input the claim calls bad
BadInput ==
    \/ content_type \notin DOMAIN TEMPLATE_MAP
    \/ DOMAIN content_data = {}
    \/ /\ content_type \in {"carousel", "infografia", "case_study"}
       /\ LET n  == _normalize_visual_data(content_type, content_data, hashOrder)
              af == _ARRAY_FIELD_TYPES[content_type]
          IN  af \notin DOMAIN n \/ ~Truthy(n[af])

RejectedEarly == html.kind = "raise" /\ html.exc = "ValueError" /\ html.stage = "validate"

-----------------------------------------------------------------------------
(* _zone_html runs *)

ZoneKeys ==
    {"x", "y", "width", "height", "bg_fill", "bg_x", "bg_y", "bg_width", "bg_height"}

ZoneNumber(k) ==
    CASE k = "x" -> 40 [] k = "y" -> 60 [] k = "width" -> 500 [] k = "height" -> 120
      [] k = "bg_x" -> 30 [] k = "bg_y" -> 50 [] k = "bg_width" -> 520
      [] OTHER -> 140

ZoneFills == {"", "transparent", "#ffffff"}

ZoneSet ==
    UNION {{[k \in keys |-> IF k = "bg_fill" THEN fill ELSE ZoneNumber(k)] : fill \in ZoneFills}
           : keys \in SUBSET ZoneKeys}

ZoneTexts == {"", "Hola", "a<b"}

NoZoneOut == [done |-> FALSE, divs |-> <<>>]

InitZone ==
    /\ zone \in ZoneSet
    /\ zone_text \in ZoneTexts
    /\ zone_out = NoZoneOut
    /\ HtmlIdle /\ SvgIdle /\ SvcIdle /\ ExtIdle

\* One call of _zone_html
ZoneHtml ==
    /\ ~zone_out.done
    /\ zone_out' = [done |-> TRUE, divs |-> _zone_html(zone_text, zone)]
    /\ UNCHANGED <<zone_text, zone, htmlVars, svgVars, svcVars, extVars>>

NextZone == ZoneHtml

SpecZone == InitZone /\ [][NextZone]_vars

\* The zone asks for a cover rectangle
WantsCover == "bg_fill" \in DOMAIN zone /\ zone["bg_fill"] \notin {"", "transparent"}

ZoneOr(k, default) == IF k \in DOMAIN zone THEN zone[k] ELSE default

\* C7: a non-empty text on a non-empty zone gives exactly one text div at the
\* zone's x, y, width, height (defaults 0, 0, 400, 100), preceded by a cover
\* rectangle iff bg_fill is set and not "transparent"; the cover rectangle is at
\* bg_x, bg_y, bg_width, bg_height, each defaulting to the text zone's own
\* coordinate, with z-index 1 under the text's 2. Empty text or an empty zone
\* gives no output.
C7_ZoneHtml ==
    zone_out.done =>
        IF zone_text = "" \/ DOMAIN zone = {}
        THEN zone_out.divs = <<>>
        ELSE LET divs == zone_out.divs
                 txt  == divs[Len(divs)]
             IN  /\ Len(divs) = (IF WantsCover THEN 2 ELSE 1)
                 /\ txt.kind = "text" /\ txt.z_index = 2
                 /\ txt.left = ZoneOr("x", 0) /\ txt.top = ZoneOr("y", 0)
                 /\ txt.width = ZoneOr("width", 400) /\ txt.height = ZoneOr("height", 100)
                 /\ WantsCover =>
                      /\ divs[1].kind = "cover" /\ divs[1].z_index = 1
                      /\ divs[1].left   = ZoneOr("bg_x", txt.left)
                      /\ divs[1].top    = ZoneOr("bg_y", txt.top)
                      /\ divs[1].width  = ZoneOr("bg_width", txt.width)
                      /\ divs[1].height = ZoneOr("bg_height", txt.height)
                      /\ divs[1].background = zone["bg_fill"]

\* A cover rectangle was drawn for a zone that gives x but no bg_x
C7_Witness ==
    /\ zone_out.done /\ Len(zone_out.divs) = 2
    /\ "x" \in DOMAIN zone /\ "bg_x" \notin DOMAIN zone
    /\ zone_out.divs[1].left = zone["x"]

-----------------------------------------------------------------------------
(* _replace_svg_text on a parsed document *)

SVG_NS == "{http://www.w3.org/2000/svg}"

EndsWith(s, suffix) ==
    Len(s) >= Len(suffix) /\ SubSeq(s, Len(s) - Len(suffix) + 1, Len(s)) = suffix

\* str.split on a one-character separator
RECURSIVE Split(_, _)
Split(s, sep) ==
    IF \E i \in 1..Len(s) : SubSeq(s, i, i) = sep
    THEN LET i == CHOOSE k \in 1..Len(s) :
                      /\ SubSeq(s, k, k) = sep
                      /\ \A m \in 1..(k - 1) : SubSeq(s, m, m) # sep
         IN  <<SubSeq(s, 1, i - 1)>> \o Split(SubSeq(s, i + 1, Len(s)), sep)
    ELSE <<s>>

\* The members of a set of indices in document order
RECURSIVE Ascending(_)
Ascending(S) ==
    IF S = {} THEN <<>>
    ELSE LET m == CHOOSE x \in S : \A y \in S : x <= y
         IN  <<m>> \o Ascending(S \ {m})

\* Element j lies below element i (the document lists elements in preorder,
\* each with the index of its parent, 0 for the root)
RECURSIVE IsBelow(_, _, _)
IsBelow(tree, j, i) ==
    /\ j > i
    /\ \/ tree[j].parent = i
       \/ IsBelow(tree, tree[j].parent, i)

IsTextTag(tag) == EndsWith(tag, "}text") \/ tag = "text"

\* Mutant: the tag of a matching element is not looked at
FindTextElementsAnyTag(tree, field_name) ==
    Ascending({i \in 1..Len(tree) :
        \/ Contains(Lower(tree[i].id), field_name)
        \/ field_name = tree[i].data_field})

\* The text elements that match a (lower-cased) field name, in document order
_find_text_elements(tree, field_name) ==
    Ascending({i \in 1..Len(tree) :
        /\ \/ Contains(Lower(tree[i].id), field_name)
           \/ field_name = tree[i].data_field
        /\ IsTextTag(tree[i].tag)})

\* elem.iter(tag): the element itself and the elements below it with that tag
Iter(tree, e, tag) ==
    Ascending({j \in 1..Len(tree) : (j = e \/ IsBelow(tree, j, e)) /\ tree[j].tag = tag})

\* The body of the loop over the matching elements, for one element
ReplaceElement(tree, e, new_text) ==
    LET namespaced == Iter(tree, e, SVG_NS \o "tspan")
        tspans     == IF namespaced # <<>> THEN namespaced ELSE Iter(tree, e, "tspan")
        lines      == IF Contains(new_text, "\n") THEN Split(new_text, "\n") ELSE <<new_text>>
    IN  IF tspans # <<>>
        THEN [j \in 1..Len(tree) |->
                IF \E k \in 1..Len(tspans) : tspans[k] = j
                THEN LET k == CHOOSE k \in 1..Len(tspans) : tspans[k] = j
                     IN  [tree[j] EXCEPT !.text = IF k <= Len(lines) THEN lines[k] ELSE ""]
                ELSE tree[j]]
        ELSE [tree EXCEPT ![e].text = new_text]

RECURSIVE ReplaceElements(_, _, _)
ReplaceElements(tree, elements, new_text) ==
    IF elements = <<>> THEN tree
    ELSE ReplaceElements(ReplaceElement(tree, Head(elements), new_text),
                         Tail(elements), new_text)

\* The loop over replacements.items()
RECURSIVE ReplaceFields(_, _)
ReplaceFields(tree, repl) ==
    IF repl = <<>> THEN tree
    ELSE LET r == Head(repl)
         IN  IF r.text = "" THEN ReplaceFields(tree, Tail(repl))
             ELSE ReplaceFields(
                      ReplaceElements(tree, _find_text_elements(tree, Lower(r.field)), r.text),
                      Tail(repl))

_replace_svg_text(tree, repl) == ReplaceFields(tree, repl)

\* ---- documents and replacements

MaxNodes == 3

SvgRoot == [tag |-> SVG_NS \o "svg", id |-> "", data_field |-> "", text |-> "", parent |-> 0]

NodeTags == {SVG_NS \o "text", "text", SVG_NS \o "tspan", "tspan"}

NodeAttrs == {<<"Title_1", "">>, <<"", "title">>, <<"", "">>}

\* The elements a next element of the document can be a child of: the last
\* element and the elements above it
OpenElements(tree) ==
    {i \in 1..Len(tree) : i = Len(tree) \/ IsBelow(tree, Len(tree), i)}

RECURSIVE Trees(_)
Trees(n) ==
    IF n = 1 THEN {<<SvgRoot>>}
    ELSE UNION {{Append(t, [tag |-> tg, id |-> a[1], data_field |-> a[2],
                            text |-> "old", parent |-> p])
                   : tg \in NodeTags, a \in NodeAttrs, p \in OpenElements(t)}
                : t \in Trees(n - 1)}

ReplacementDicts ==
    {<<[field |-> "title", text |-> "New"]>>,
     <<[field |-> "Title", text |-> "New"]>>,
     <<[field |-> "title", text |-> ""]>>,
     <<[field |-> "title", text |-> "L1\nL2"]>>,
     <<[field |-> "title_1", text |-> "X"], [field |-> "title", text |-> "A"]>>}

NoSvgOut == [done |-> FALSE, root |-> <<>>]

InitSvg ==
    /\ svg_root \in UNION {Trees(n) : n \in 1..MaxNodes}
    /\ replacements \in ReplacementDicts
    /\ svg_out = NoSvgOut
    /\ HtmlIdle /\ ZoneIdle /\ SvcIdle /\ ExtIdle

\* One call of _replace_svg_text
ReplaceSvgText ==
    /\ ~svg_out.done
    /\ svg_out' = [done |-> TRUE, root |-> _replace_svg_text(svg_root, replacements)]
    /\ UNCHANGED <<svg_root, replacements, htmlVars, zoneVars, svcVars, extVars>>

NextSvg == ReplaceSvgText

SpecSvg == InitSvg /\ [][NextSvg]_vars

\* The elements and their nesting are what they were
StructureIntact ==
    /\ Len(svg_out.root) = Len(svg_root)
    /\ \A i \in 1..Len(svg_root) :
          /\ svg_out.root[i].tag = svg_root[i].tag
          /\ svg_out.root[i].id = svg_root[i].id
          /\ svg_out.root[i].data_field = svg_root[i].data_field
          /\ svg_out.root[i].parent = svg_root[i].parent

TextChanged(i) == svg_out.root[i].text # svg_root[i].text

IsTspan(i) == svg_root[i].tag \in {SVG_NS \o "tspan", "tspan"}

HasTspans(e) == \E j \in 1..Len(svg_root) : IsBelow(svg_root, j, e) /\ IsTspan(j)

\* C6 as stated: the only elements whose text changes are <text> elements
\* whose id contains the field name, case-insensitively, or whose data-field
\* attribute equals the field name, for a field whose replacement is not
\* empty; the document's structure stays intact.
C6_Original ==
    svg_out.done =>
        /\ StructureIntact
        /\ \A i \in 1..Len(svg_root) :
              TextChanged(i) =>
                 \E k \in 1..Len(replacements) :
                    /\ replacements[k].text # ""
                    /\ IsTextTag(svg_root[i].tag)
                    /\ \/ Contains(Lower(svg_root[i].id), Lower(replacements[k].field))
                       \/ svg_root[i].data_field = replacements[k].field

\* A <text> element matches a field: its id contains the field name, or its
\* data-field equals the field name, in both cases case-insensitively
MatchesField(e, field) ==
    /\ IsTextTag(svg_root[e].tag)
    /\ \/ Contains(Lower(svg_root[e].id), Lower(field))
       \/ Lower(svg_root[e].data_field) = Lower(field)

\* C6 amended: the only elements whose text changes are, for a field whose
\* replacement is not empty, the matching <text> elements that hold no tspan
\* and the tspan elements below a matching <text> element, where a data-field
\* matches a field name that differs from it only in case; the document's
\* structure stays intact.
C6_Amended ==
    svg_out.done =>
        /\ StructureIntact
        /\ \A i \in 1..Len(svg_root) :
              TextChanged(i) =>
                 \E k \in 1..Len(replacements) : \E e \in 1..Len(svg_root) :
                    /\ replacements[k].text # ""
                    /\ MatchesField(e, replacements[k].field)
                    /\ \/ i = e /\ ~HasTspans(e)
                       \/ IsBelow(svg_root, i, e) /\ IsTspan(i)

\* A matching <text> element got its new text while an element that is not a
\* <text> element, with a matching id, kept its own
C6_Witness ==
    /\ svg_out.done
    /\ \E i, j \in 1..Len(svg_root) :
          /\ IsTextTag(svg_root[i].tag) /\ TextChanged(i)
          /\ ~IsTextTag(svg_root[j].tag) /\ svg_root[j].id = "Title_1"
          /\ ~IsBelow(svg_root, j, i) /\ ~TextChanged(j)

-----------------------------------------------------------------------------
(* The external design providers *)

\* The results of a provider call: None, an exception, a result dict
ProviderNone(cache) ==
    [kind |-> "none", exc |-> "", file |-> "", html |-> <<>>, format |-> "",
     written |-> {}, cache |-> cache]

ProviderRaised(exc, cache) ==
    [kind |-> "raised", exc |-> exc, file |-> "", html |-> <<>>, format |-> "",
     written |-> {}, cache |-> cache]

ProviderResult(file, page, format, cache) ==
    [kind |-> "result", exc |-> "", file |-> file, html |-> page, format |-> format,
     written |-> {file}, cache |-> cache]

\* The text a provider sends for one value of the normalised content: a
\* non-empty str as it is, a list joined from its items; <<>> when nothing is sent
ProviderText(value) ==
    IF value.t = "str" /\ value.s # "" THEN <<value.s>>
    ELSE IF value.t = "list"
    THEN LET part(item) == <<Get(item, "headline", "") \o "\n" \o Get(item, "body", "")>>
             parts == FlatMap(part, value.l)
         IN  IF parts # <<>> THEN <<JoinStr(parts, "\n\n")>> ELSE <<>>
    ELSE <<>>

\* The loop over field_map.items(): target name -> text
RECURSIVE MapFields(_, _, _, _)
MapFields(field_map, fields, norm, acc) ==
    IF fields = <<>> THEN acc
    ELSE LET text == ProviderText(Get(norm, Head(fields), StrV("")))
         IN  MapFields(field_map, Tail(fields), norm,
                       IF text # <<>> THEN Put(acc, field_map[Head(fields)], text[1]) ELSE acc)

FieldMapOrder == <<"title", "slides", "brand_name", "brand_website">>

NoFields == [k \in {} |-> ""]

\* The SVG documents the Figma API can answer with
GoodSvg == "<svg><text id='Headline'>Old</text></svg>"
BadSvg  == "<svg><text id='Headline'>Old</svg>"

\* SafeET.fromstring at the head of _replace_svg_text, then the replacement
SvgParse(svg, repl) ==
    IF svg = BadSvg THEN [kind |-> "ParseError"]
    ELSE [kind |-> "svg", svg |-> svg, repl |-> repl]

\* The failures of the environment during one call
FigmaFaults ==
    {"not_connected", "no_token", "api_error", "download_error", "malformed_svg",
     "browser_failure", "file_write_error"}

CanvaFaults ==
    {"not_connected", "token_refresh_error", "api_error", "no_job_id", "job_timeout",
     "no_design_id", "export_error", "no_export_id", "no_urls", "download_error",
     "file_write_error"}

render_figma_content(ds, data, content_id, ctype, brand, order, cache, fault) ==
    LET file_key  == Get(ds, "file_key", "")
        node_id   == Get(ds, "frame_id", "")
        field_map == Get(ds, "field_map", NoFields)
        key       == <<file_key, node_id>>
        cached    == Get(cache, key, "")
        fetched   == IF fault = "malformed_svg" THEN BadSvg ELSE GoodSvg
        svg       == IF cached # "" THEN cached ELSE fetched
        cache2    == IF cached # "" THEN cache ELSE Put(cache, key, fetched)
        norm      == _normalize_visual_data(ctype, data, order)
        mapped    == MapFields(field_map, KeysInOrder(field_map, FieldMapOrder), norm, NoFields)
        repl      == Put(Put(mapped, "brand_name", Get(brand, "name", "")),
                         "brand_website", Get(brand, "website", ""))
        modified  == SvgParse(svg, repl)
        config    == Get(TEMPLATE_MAP, ctype, [width |-> 1080, height |-> 1080, format |-> "png"])
        format    == config.format
    IN  IF fault = "not_connected" THEN ProviderNone(cache)
        ELSE IF fault = "no_token" \/ file_key = "" \/ node_id = "" THEN ProviderNone(cache)
        ELSE IF cached = "" /\ fault \in {"api_error", "download_error"} THEN ProviderNone(cache)
        ELSE IF modified.kind = "ParseError" THEN ProviderRaised("ParseError", cache2)
        ELSE IF fault \in {"browser_failure", "file_write_error"} THEN ProviderNone(cache2)
        ELSE ProviderResult(content_id \o "." \o format, modified, format, cache2)

render_canva_content(ds, data, content_id, ctype, brand, order, cache, fault) ==
    LET template_id == Get(ds, "template_id", "")
        field_map   == Get(ds, "field_map", NoFields)
        norm        == _normalize_visual_data(ctype, data, order)
        mapped      == MapFields(field_map, KeysInOrder(field_map, FieldMapOrder), norm, NoFields)
        with_name   == IF "brand_name" \in DOMAIN field_map /\ Get(brand, "name", "") # ""
                       THEN Put(mapped, field_map["brand_name"], brand["name"]) ELSE mapped
        autofill_data ==
                       IF "brand_website" \in DOMAIN field_map /\ Get(brand, "website", "") # ""
                       THEN Put(with_name, field_map["brand_website"], brand["website"])
                       ELSE with_name
    IN  IF fault = "not_connected" THEN ProviderNone(cache)
        ELSE IF template_id = "" THEN ProviderNone(cache)
        ELSE IF fault = "token_refresh_error" THEN ProviderNone(cache)
        ELSE IF DOMAIN autofill_data = {} THEN ProviderNone(cache)
        ELSE IF fault \in {"api_error", "no_job_id", "job_timeout", "no_design_id"}
        THEN ProviderNone(cache)
        ELSE IF fault \in {"export_error", "no_export_id", "no_urls", "download_error"}
        THEN ProviderNone(cache)
        ELSE IF fault = "file_write_error" THEN ProviderRaised("OSError", cache)
        ELSE ProviderResult(content_id \o ".png", <<>>, "png", cache)

-----------------------------------------------------------------------------
(* render_service *)

\* The names the provider modules define
FigmaRenderServiceNames ==
    {"_cache_key", "_get_cached_svg", "_save_cached_svg", "render_figma_content"}

CanvaRenderServiceNames == {"render_canva_content"}

\* Mutant: a render sets the status to review whatever it was
RenderedStatusAlwaysReview(status) == "review"

\* The status of an item after a render
RenderedStatus(status) == IF status = "draft" THEN "review" ELSE status

\* What a service call hands to its caller, with the state it leaves
Returned(source, page, item, ext, builtin, files) ==
    [outcome |-> "returned", exc |-> "", exc_from |-> "", render_source |-> source,
     rendered_html |-> page, item |-> item,
     provider_outcome |-> ext.kind, provider_exc |-> ext.exc, provider_file |-> ext.file,
     builtin_invoked |-> builtin, cache |-> ext.cache, files |-> files]

Failed(exc, from, item, ext, builtin, files) ==
    [outcome |-> "raised", exc |-> exc, exc_from |-> from, render_source |-> "",
     rendered_html |-> <<>>, item |-> item,
     provider_outcome |-> ext.kind, provider_exc |-> ext.exc, provider_file |-> ext.file,
     builtin_invoked |-> builtin, cache |-> ext.cache, files |-> files]

\* No provider was called
NotCalled(cache) ==
    [kind |-> "not_called", exc |-> "", file |-> "", html |-> <<>>, format |-> "",
     written |-> {}, cache |-> cache]

\* upload_file, then the update of the item
_upload_and_save(item, result, source, ext, builtin, files, fault) ==
    IF fault = "upload_error"
    THEN Failed("StorageError", "upload", item, ext, builtin, files)
    ELSE Returned(source, result.html,
                  [item EXCEPT !.rendered_html = result.html,
                               !.status = RenderedStatus(item.status)],
                  ext, builtin, files)

\* Mutant: an exception of the provider is not caught
ExceptUncaught(called) == called

\* try: ... except Exception: ext_result = None
ExceptToNone(called) ==
    IF called.kind = "raised" THEN [called EXCEPT !.kind = "none"] ELSE called

\* The value of a set of one element: binds the result of a call to a name
Only(S) == CHOOSE x \in S : TRUE

\* _render_html_with_playwright: the page is drawn and written to the renders dir
_render_html_with_playwright(page, ctype, output_id, fault) ==
    IF fault \in {"browser_failure", "file_write_error"}
    THEN [kind |-> "raised", exc |-> "RuntimeError"]
    ELSE [kind |-> "result", exc |-> "", html |-> page,
          file |-> output_id \o "." \o TEMPLATE_MAP[ctype].format]

\* render(): generate_html, then Playwright
render(ctype, data, content_id, layout, assets, brand, zones, order, renderOk, fault) ==
    Only({IF page.kind = "raise" THEN [kind |-> "raised", exc |-> page.exc]
          ELSE _render_html_with_playwright(page, ctype, content_id, fault)
            : page \in {generate_html(ctype, data, layout, assets, brand, zones, order, renderOk)}})

render_content_item(item, data, ctype, ds, layout, assets, zones, brand, order, renderOk, cache, files, fault) ==
    IF ctype \notin VISUAL_TYPES
    THEN Failed("ValueError", "check", item, NotCalled(cache), FALSE, files)
    ELSE
    LET provider == Get(ds, "provider", "")
    IN  Only({
          LET ext  == ExceptToNone(called)
              seen == [ext EXCEPT !.kind = called.kind]
          IN  IF ext.kind = "raised"
              THEN Failed(ext.exc, "provider", item, seen, FALSE, files \cup ext.written)
              ELSE IF ext.kind = "result"
              THEN _upload_and_save(item, ext, provider, seen, FALSE,
                                    files \cup ext.written, fault)
              ELSE Only({
                     IF built.kind = "raised"
                     THEN Failed(built.exc, "builtin", item, seen, TRUE, files)
                     ELSE _upload_and_save(item, built, "builtin", seen, TRUE,
                                           files \cup {built.file}, fault)
                       : built \in {render(ctype, data, item.id, layout, assets, brand,
                                           zones, order, renderOk, fault)}})
            : called \in
                {IF DOMAIN ds = {} THEN NotCalled(cache)
                 ELSE IF provider = "figma"
                 THEN render_figma_content(ds, data, item.id, ctype, brand, order, cache, fault)
                 ELSE IF provider = "canva"
                 THEN render_canva_content(ds, data, item.id, ctype, brand, order, cache, fault)
                 ELSE NotCalled(cache)}})

\* The provider call of preview_content_item: the import of a name the provider
\* module does not define raises ImportError inside the try
PreviewProvider(provider, cache) ==
    IF provider = "canva" /\ "create_canva_preview" \notin CanvaRenderServiceNames
    THEN ProviderRaised("ImportError", cache)
    ELSE IF provider = "figma" /\ "preview_figma_content" \notin FigmaRenderServiceNames
    THEN ProviderRaised("ImportError", cache)
    ELSE NotCalled(cache)

preview_content_item(item, data, ctype, ds, layout, assets, zones, brand, order, renderOk, cache, files) ==
    IF ctype \notin VISUAL_TYPES
    THEN Failed("ValueError", "check", item, NotCalled(cache), FALSE, files)
    ELSE
    LET provider == Get(ds, "provider", "")
        called   == IF DOMAIN ds = {} THEN NotCalled(cache)
                    ELSE PreviewProvider(provider, cache)
        ext      == ExceptToNone(called)
        seen     == [ext EXCEPT !.kind = called.kind]
    IN  IF ext.kind = "raised"
        THEN Failed(ext.exc, "provider", item, seen, FALSE, files)
        ELSE Only({
               IF page.kind = "raise"
               THEN Failed(page.exc, "builtin", item, seen, TRUE, files)
               ELSE Returned("builtin", page, item, seen, TRUE, files)
                 : page \in {generate_html(ctype, data, layout, assets, brand, zones,
                                           order, renderOk)}})

\* render_from_html: the check of the content type, then Playwright
render_from_html(page, ctype, content_id, fault) ==
    IF ctype \notin DOMAIN TEMPLATE_MAP THEN [kind |-> "raised", exc |-> "ValueError"]
    ELSE _render_html_with_playwright(page, ctype, content_id, fault)

\* The HTML a user sends back from the preview editor
EditedHtml == Html("edited", <<>>, {})

render_from_preview(item, data, ctype, ds, layout, assets, zones, brand, order, renderOk, cache, files, edited, canva_design_id, fault) ==
    LET figma == DOMAIN ds # {} /\ Get(ds, "provider", "") = "figma" /\ ~edited
    IN  IF canva_design_id # "" /\ "export_canva_design" \notin CanvaRenderServiceNames
        THEN Failed("ValueError", "provider", item, ProviderRaised("ImportError", cache),
                    FALSE, files)
        ELSE Only({
          IF called.kind = "raised"
          THEN Failed("ValueError", "provider", item, called, FALSE, files)
          ELSE IF called.kind = "result"
          THEN _upload_and_save(item, called, "figma", called, FALSE,
                                files \cup called.written, fault)
          ELSE Only({
                 IF page.kind = "raise"
                 THEN Failed(page.exc, "builtin", item, called, TRUE, files)
                 ELSE LET built == render_from_html(page, ctype, item.id, fault)
                      IN  IF built.kind = "raised"
                          THEN Failed(built.exc, "builtin", item, called, TRUE, files)
                          ELSE _upload_and_save(item, built, "builtin", called, TRUE,
                                                files \cup {built.file}, fault)
                   : page \in {IF edited THEN EditedHtml
                               ELSE generate_html(ctype, data, layout, assets, brand, zones,
                                                  order, renderOk)}})
            : called \in
                {IF figma
                 THEN render_figma_content(ds, data, item.id, ctype, brand, order, cache, fault)
                 ELSE NotCalled(cache)}})

\* ---- templates, items and calls

MaxRenders == 2

VALID_STATUSES == {"draft", "review", "published", "amplified", "archived"}

ItemIds == {"c1"}

FigmaSource ==
    [provider |-> "figma", file_key |-> "FK", frame_id |-> "1:2",
     field_map |-> [title |-> "Headline", slides |-> "Body"]]

CanvaSource ==
    [provider |-> "canva", template_id |-> "T1", field_map |-> [title |-> "HEAD"]]

DesignSources ==
    {NoFields,
     FigmaSource,
     [provider |-> "figma", file_key |-> "FK", field_map |-> NoFields],
     CanvaSource,
     [provider |-> "canva", field_map |-> [title |-> "HEAD"]],
     [provider |-> "canva", template_id |-> "T1", field_map |-> [quote |-> "Q"]],
     [provider |-> "sketch"]}

ServiceTypes == {"carousel", "blog_post"}

ServiceData == [title |-> StrV("T"), slides |-> ListV(<<Slide1>>)]

\* The failures that bear on a render of a template with design source ds
Faults(ds) ==
    {"none", "upload_error", "browser_failure"}
    \cup (IF Get(ds, "provider", "") = "figma" THEN FigmaFaults ELSE {})
    \cup (IF Get(ds, "provider", "") = "canva" THEN CanvaFaults ELSE {})

NoCache == [k \in {} |-> ""]

NoCall ==
    [op |-> "", id |-> "", status_before |-> "", outcome |-> "", exc |-> "",
     exc_from |-> "", render_source |-> "", provider_outcome |-> "", provider_exc |-> "",
     provider_file |-> "", builtin_invoked |-> FALSE]

\* The record of a call
Call(op, id, status_before, r) ==
    [op |-> op, id |-> id, status_before |-> status_before,
     outcome |-> r.outcome, exc |-> r.exc, exc_from |-> r.exc_from,
     render_source |-> r.render_source, provider_outcome |-> r.provider_outcome,
     provider_exc |-> r.provider_exc, provider_file |-> r.provider_file,
     builtin_invoked |-> r.builtin_invoked]

InitService ==
    /\ content_type \in ServiceTypes
    /\ content_data = ServiceData
    /\ template_assets = <<>> /\ structure_zones = EmptyZones
    /\ visual_layout_override = ""
    /\ brand_context = [name |-> "Acme", website |-> ""]
    /\ hashOrder = <<"cierre", "closing">>
    /\ tplRenderOk = TRUE
    /\ html = NoOutcome /\ produced = {} /\ normalized = NotNormalized
    /\ design_source \in DesignSources
    /\ items = [i \in ItemIds |-> [id |-> i, status |-> "draft", rendered_html |-> <<>>]]
    /\ env = [files |-> {}, cache |-> NoCache]
    /\ last_call = NoCall
    /\ renders = 0
    /\ ZoneIdle /\ SvgIdle /\ ExtIdle

\* The state after a service call that came out as r
AfterCall(op, i, r) ==
    /\ r.outcome = "returned" /\ op # "preview" => renders < MaxRenders
    /\ items' = [items EXCEPT ![i] = r.item]
    /\ env' = [files |-> r.files, cache |-> r.cache]
    /\ last_call' = Call(op, i, items[i].status, r)
    /\ renders' = IF r.outcome = "returned" /\ op # "preview" THEN renders + 1 ELSE renders
    /\ UNCHANGED <<design_source, htmlVars, zoneVars, svgVars, extVars>>

\* POST /content/{id}/render
RenderContentItem ==
    \E i \in ItemIds, fault \in Faults(design_source) :
        \E r \in {render_content_item(items[i], content_data, content_type, design_source,
                      visual_layout_override, template_assets, structure_zones,
                      brand_context, hashOrder, tplRenderOk, env.cache, env.files, fault)} :
            AfterCall("render", i, r)

\* The preview of an item
PreviewContentItem ==
    \E i \in ItemIds :
        \E r \in {preview_content_item(items[i], content_data, content_type, design_source,
                      visual_layout_override, template_assets, structure_zones,
                      brand_context, hashOrder, tplRenderOk, env.cache, env.files)} :
            AfterCall("preview", i, r)

\* The final render of a previewed item
RenderFromPreview ==
    \E i \in ItemIds, fault \in Faults(design_source) \ CanvaFaults, edited \in BOOLEAN, canva_design_id \in {"", "D1"} :
        \E r \in {render_from_preview(items[i], content_data, content_type, design_source,
                      visual_layout_override, template_assets, structure_zones,
                      brand_context, hashOrder, tplRenderOk, env.cache, env.files,
                      edited, canva_design_id, fault)} :
            AfterCall("render_from_preview", i, r)

\* PUT /content/{id} with a status
UpdateContent ==
    \E i \in ItemIds, status \in VALID_STATUSES :
        /\ items[i].status # status
        /\ items' = [items EXCEPT ![i].status = status]
        /\ last_call' = [NoCall EXCEPT !.op = "update", !.id = i,
                                       !.status_before = items[i].status]
        /\ UNCHANGED <<env, renders, design_source, htmlVars, zoneVars, svgVars, extVars>>

NextService == RenderContentItem \/ PreviewContentItem \/ RenderFromPreview \/ UpdateContent

SpecService == InitService /\ [][NextService]_vars

\* The last call went to a template that names figma or canva
NamesProvider ==
    /\ last_call.op \in {"render", "preview"}
    /\ DOMAIN design_source # {}
    /\ Get(design_source, "provider", "") \in {"figma", "canva"}
    /\ content_type \in VISUAL_TYPES

\* C2: in render_content_item and preview_content_item on a template that names
\* figma or canva, a provider call that returns None or raises makes the call
\* run the built-in engine, a result it returns is tagged "builtin", and no
\* exception of the provider reaches the caller; a provider call that returns a
\* result keeps the built-in engine from running and the result is tagged with
\* the provider's name.
C2_ProviderFallback ==
    NamesProvider =>
        /\ last_call.provider_outcome \in {"none", "raised", "result"}
        /\ last_call.provider_outcome \in {"none", "raised"} =>
              /\ last_call.builtin_invoked
              /\ last_call.exc_from # "provider"
              /\ last_call.outcome = "returned" => last_call.render_source = "builtin"
        /\ last_call.provider_outcome = "result" =>
              /\ ~last_call.builtin_invoked
              /\ last_call.outcome = "returned" =>
                    last_call.render_source = design_source["provider"]

\* The provider raised and the caller got the built-in engine's result
C2_Witness ==
    /\ NamesProvider
    /\ last_call.op = "render"
    /\ last_call.provider_outcome = "raised"
    /\ last_call.builtin_invoked
    /\ last_call.outcome = "returned" /\ last_call.render_source = "builtin"

\* C3: render_figma_content and render_canva_content never raise, whatever
\* fails, and return a result only when they produced an output file.
C3_NeverRaise ==
    last_call.op = "render" =>
        /\ last_call.provider_outcome # "raised"
        /\ last_call.provider_outcome = "result" => last_call.provider_file \in env.files

\* C10: a successful render leaves the item in review if it was a draft, and
\* in the status it had otherwise.
C10_StatusOnRender ==
    last_call.op \in {"render", "render_from_preview"} /\ last_call.outcome = "returned" =>
        items[last_call.id].status =
            IF last_call.status_before = "draft" THEN "review" ELSE last_call.status_before

\* A published item was rendered, after an earlier render, and is still published
C10_Witness ==
    /\ last_call.op = "render" /\ last_call.outcome = "returned"
    /\ renders >= 2
    /\ last_call.status_before = "published"
    /\ items[last_call.id].status = "published"

-----------------------------------------------------------------------------
(* backend/routers/settings.py: the Canva OAuth handlers and the PKCE store *)
(* Handlers are plain def functions: each request runs on a pool thread,    *)
(* and the threads interleave between the dict operations.                  *)

_PKCE_TTL == 300

MaxCalls == 3

\* How far the clock runs: one time to live, and a second
Horizon == _PKCE_TTL + 1

\* CANVA_CLIENT_ID, CANVA_CLIENT_SECRET and CANVA_REDIRECT_URI are set in the
\* environment of the process
CanvaConfigured == TRUE

Threads == {"t1", "t2"}
Orgs    == {"o1", "o2"}
OAuthStates == {"s1", "s2"}

\* The amounts of time that pass between two steps: a time to live, and just
\* more than one
TickSteps == {_PKCE_TTL, _PKCE_TTL + 1}

\* Mutant: the store key leaves the organisation out
StoreKeyStateOnly(org_id, state) == state

\* f"{org_id}:{state}"
StoreKey(org_id, state) == org_id \o ":" \o state

\* generate_pkce(): a fresh verifier; the model names it after the state it is made for
Verifier(state) == "v-" \o state

\* ---- the dict: entries in insertion order; a popped entry leaves a dead slot

LiveKeys(d) == {d[i].key : i \in {j \in 1..Len(d) : d[j].live}}

\* ma_used: the number of live entries
Used(d) == Cardinality({j \in 1..Len(d) : d[j].live})

SlotOf(d, key) == CHOOSE j \in 1..Len(d) : d[j].live /\ d[j].key = key

\* d[key] = (verifier, expires_at)
DictSet(d, key, verifier, expires_at) ==
    IF key \in LiveKeys(d)
    THEN [d EXCEPT ![SlotOf(d, key)].verifier = verifier,
                   ![SlotOf(d, key)].expires_at = expires_at]
    ELSE Append(d, [key |-> key, verifier |-> verifier, expires_at |-> expires_at,
                    live |-> TRUE])

\* d.pop(key, None): the dict without the key
DictPop(d, key) ==
    IF key \in LiveKeys(d) THEN [d EXCEPT ![SlotOf(d, key)].live = FALSE] ELSE d

NoEntry == [found |-> FALSE, verifier |-> "", expires_at |-> 0]

\* d.pop(key, None): the value
DictPopValue(d, key) ==
    IF key \in LiveKeys(d)
    THEN [found |-> TRUE, verifier |-> d[SlotOf(d, key)].verifier,
          expires_at |-> d[SlotOf(d, key)].expires_at]
    ELSE NoEntry

\* The live slots after position pos
LiveAfter(d, pos) == {j \in 1..Len(d) : j > pos /\ d[j].live}

\* ---- threads

IdleThread ==
    [pc |-> "idle", op |-> "", org |-> "", state |-> "", now |-> 0, pos |-> 0, used |-> 0,
     expired |-> <<>>, entry |-> NoEntry, known |-> FALSE, used_before |-> FALSE,
     age |-> 0]

\* The record of a handler call that ended
Ended(th, status, exc, wrote) ==
    [op |-> th.op, org |-> th.org, state |-> th.state, status |-> status, exc |-> exc,
     wrote |-> wrote, known |-> th.known, used_before |-> th.used_before, age |-> th.age]

Started == Cardinality(calls) + Cardinality({t \in Threads : threads[t].pc # "idle"})

InitOAuth ==
    /\ _canva_pkce_store = <<>>
    /\ clock = 0
    /\ threads = [t \in Threads |-> IdleThread]
    /\ org_config = [o \in Orgs |-> "none"]
    /\ issued = {} /\ popped = {} /\ handed = <<>> /\ calls = {}
    /\ OAuthOthersIdle

\* time passes
Tick ==
    /\ \E d \in TickSteps :
          /\ clock + d <= Horizon
          /\ clock' = clock + d
    /\ UNCHANGED <<_canva_pkce_store, threads, org_config, issued, popped, handed, calls>>
    /\ OAuthFrame

StateRank(st) == IF st = "s1" THEN 1 ELSE 2

\* The states secrets.token_urlsafe has produced so far
Generated ==
    {i.state : i \in issued}
    \cup {threads[t].state : t \in {u \in Threads : threads[u].op = "authorize"}}

\* The pool hands a request to a free worker; which free worker makes no
\* difference, so it is the first one
FreeWorker(t) == threads[t].pc = "idle" /\ (t = "t1" \/ threads["t1"].pc # "idle")

\* secrets.token_urlsafe(32): a state that was not produced before
FreshState ==
    CHOOSE st \in OAuthStates \ Generated : \A other \in OAuthStates \ Generated :
        StateRank(st) <= StateRank(other)

\* GET /canva/authorize-url arrives: the configuration check, generate_pkce and
\* the state
StartAuthorize(t) ==
    /\ FreeWorker(t) /\ Started < MaxCalls
    /\ \E org \in Orgs :
          IF ~CanvaConfigured
          THEN /\ calls' = calls \cup
                     {Ended([IdleThread EXCEPT !.op = "authorize", !.org = org], 400, "", FALSE)}
               /\ UNCHANGED threads
          ELSE /\ OAuthStates \ Generated # {}
               /\ threads' = [threads EXCEPT ![t] =
                     [IdleThread EXCEPT !.pc = "store", !.op = "authorize", !.org = org,
                                        !.state = FreshState]]
               /\ UNCHANGED calls
    /\ UNCHANGED <<_canva_pkce_store, clock, org_config, issued, popped, handed>>
    /\ OAuthFrame

\* _pkce_set: _canva_pkce_store[key] = (verifier, time.time() + _PKCE_TTL)
PkceStore(t) ==
    /\ threads[t].pc = "store"
    /\ _canva_pkce_store' =
          DictSet(_canva_pkce_store, StoreKey(threads[t].org, threads[t].state),
                  Verifier(threads[t].state), clock + _PKCE_TTL)
    /\ issued' = issued \cup {[org |-> threads[t].org, state |-> threads[t].state, at |-> clock]}
    /\ threads' = [threads EXCEPT ![t].pc = "now"]
    /\ UNCHANGED <<clock, org_config, popped, handed, calls>>
    /\ OAuthFrame

\* _pkce_set: now = time.time(), and the iterator over the items of the dict
PkceIterStart(t) ==
    /\ threads[t].pc = "now"
    /\ threads' = [threads EXCEPT ![t].pc = "iter", ![t].now = clock, ![t].pos = 0,
                                  ![t].used = Used(_canva_pkce_store)]
    /\ UNCHANGED <<_canva_pkce_store, clock, org_config, issued, popped, handed, calls>>
    /\ OAuthFrame

\* _pkce_set: one step of the list comprehension. The iterator raises
\* RuntimeError when the dict has changed size since the iterator was made
PkceIterNext(t) ==
    /\ threads[t].pc = "iter"
    /\ LET d    == _canva_pkce_store
           rest == LiveAfter(d, threads[t].pos)
           j    == CHOOSE k \in rest : \A m \in rest : k <= m
       IN  IF Used(d) # threads[t].used
           THEN /\ calls' = calls \cup {Ended(threads[t], 500, "RuntimeError", FALSE)}
                /\ threads' = [threads EXCEPT ![t] = IdleThread]
           ELSE IF rest = {}
           THEN /\ threads' = [threads EXCEPT ![t].pc = "cleanup"]
                /\ UNCHANGED calls
           ELSE /\ threads' = [threads EXCEPT ![t].pos = j,
                      ![t].expired = IF d[j].expires_at < threads[t].now
                                     THEN Append(threads[t].expired, d[j].key)
                                     ELSE threads[t].expired]
                /\ UNCHANGED calls
    /\ UNCHANGED <<_canva_pkce_store, clock, org_config, issued, popped, handed>>
    /\ OAuthFrame

\* _pkce_set: one pop of an expired key; after the last, build_auth_url and the
\* response
PkceCleanup(t) ==
    /\ threads[t].pc = "cleanup"
    /\ IF threads[t].expired = <<>>
       THEN /\ calls' = calls \cup {Ended(threads[t], 200, "", FALSE)}
            /\ threads' = [threads EXCEPT ![t] = IdleThread]
            /\ UNCHANGED _canva_pkce_store
       ELSE /\ _canva_pkce_store' = DictPop(_canva_pkce_store, Head(threads[t].expired))
            /\ threads' = [threads EXCEPT ![t].expired = Tail(threads[t].expired)]
            /\ UNCHANGED calls
    /\ UNCHANGED <<clock, org_config, issued, popped, handed>>
    /\ OAuthFrame

\* POST /canva/callback arrives: the configuration check
StartCallback(t) ==
    /\ FreeWorker(t) /\ Started < MaxCalls
    /\ \E org \in Orgs, state \in OAuthStates :
          IF ~CanvaConfigured
          THEN /\ calls' = calls \cup
                     {Ended([IdleThread EXCEPT !.op = "callback", !.org = org,
                                               !.state = state], 400, "", FALSE)}
               /\ UNCHANGED threads
          ELSE /\ threads' = [threads EXCEPT ![t] =
                     [IdleThread EXCEPT !.pc = "pop", !.op = "callback",
                                        !.org = org, !.state = state]]
               /\ UNCHANGED calls
    /\ UNCHANGED <<_canva_pkce_store, clock, org_config, issued, popped, handed>>
    /\ OAuthFrame

\* _pkce_pop: entry = _canva_pkce_store.pop(key, None)
PkcePop(t) ==
    /\ threads[t].pc = "pop"
    /\ LET key == StoreKey(threads[t].org, threads[t].state)
           e   == DictPopValue(_canva_pkce_store, key)
           pair == <<threads[t].org, threads[t].state>>
       IN  /\ _canva_pkce_store' = DictPop(_canva_pkce_store, key)
           /\ threads' = [threads EXCEPT ![t].pc = "check", ![t].entry = e,
                 ![t].known = \E i \in issued : i.org = pair[1] /\ i.state = pair[2],
                 ![t].used_before = pair \in popped]
           /\ popped' = IF e.found THEN popped \cup {pair} ELSE popped
    /\ UNCHANGED <<clock, org_config, issued, handed, calls>>
    /\ OAuthFrame

\* _pkce_pop: the None and expiry checks, its return, and the handler's check
\* of what it returned
PkceCheck(t) ==
    /\ threads[t].pc = "check"
    /\ LET th  == threads[t]
           at  == {i.at : i \in {k \in issued : k.org = th.org /\ k.state = th.state}}
           age == IF at = {} THEN 0 ELSE clock - (CHOOSE a \in at : TRUE)
           aged == [th EXCEPT !.age = age]
       IN  IF ~th.entry.found \/ clock > th.entry.expires_at
           THEN /\ calls' = calls \cup {Ended(aged, 400, "", FALSE)}
                /\ threads' = [threads EXCEPT ![t] = IdleThread]
                /\ UNCHANGED handed
           ELSE /\ handed' = Append(handed, th.entry.verifier)
                /\ threads' = [threads EXCEPT ![t] = [aged EXCEPT !.pc = "exchange"]]
                /\ UNCHANGED calls
    /\ UNCHANGED <<_canva_pkce_store, clock, org_config, issued, popped>>
    /\ OAuthFrame

\* exchange_code, get_user_info, upsert_org_config and the response
Exchange(t) ==
    /\ threads[t].pc = "exchange"
    /\ \E answer \in {"tokens", "error", "no_access_token"} :
          /\ calls' = calls \cup
                {IF answer = "tokens" THEN Ended(threads[t], 200, "", TRUE)
                 ELSE IF answer = "error" THEN Ended(threads[t], 400, "", FALSE)
                 ELSE Ended(threads[t], 500, "KeyError", FALSE)}
          /\ org_config' = IF answer = "tokens"
                           THEN [org_config EXCEPT ![threads[t].org] =
                                    "token-" \o threads[t].state]
                           ELSE org_config
    /\ threads' = [threads EXCEPT ![t] = IdleThread]
    /\ UNCHANGED <<_canva_pkce_store, clock, issued, popped, handed>>
    /\ OAuthFrame

NextOAuth ==
    \/ Tick
    \/ \E t \in Threads :
          \/ StartAuthorize(t) \/ PkceStore(t) \/ PkceIterStart(t) \/ PkceIterNext(t)
          \/ PkceCleanup(t)
          \/ StartCallback(t) \/ PkcePop(t) \/ PkceCheck(t) \/ Exchange(t)

SpecOAuth == InitOAuth /\ [][NextOAuth]_vars

\* C11: under every interleaving of the handlers' _pkce_set and _pkce_pop calls
\* no call raises and no verifier is handed to two callers.
C11_ThreadSafe ==
    /\ \A c \in calls : c.exc # "RuntimeError"
    /\ \A i, j \in 1..Len(handed) : handed[i] = handed[j] => i = j

\* A callback carries a state that is unknown or issued to another
\* organisation, already redeemed, or older than the time to live
BadState(c) == ~c.known \/ c.used_before \/ c.age > _PKCE_TTL

\* C12: a callback succeeds only with a state that get_canva_authorize_url
\* stored for the same organisation at most 300 seconds before and that no
\* callback redeemed before; a callback with an unknown, expired, used or
\* other-organisation state gets HTTP 400 and writes no canva_config.
C12_StateRedeemedOnce ==
    \A c \in calls :
        c.op = "callback" =>
            /\ c.status = 200 => c.known /\ ~c.used_before /\ c.age <= _PKCE_TTL
            /\ c.status = 200 => c.wrote
            /\ BadState(c) => c.status = 400 /\ ~c.wrote

\* One callback redeemed a state; a later one with the same state, and one with
\* the state under another organisation, were turned away
C12_Witness ==
    \E c, d \in calls :
        /\ c.op = "callback" /\ c.status = 200 /\ c.wrote
        /\ d.op = "callback" /\ d.state = c.state /\ d.status = 400
        /\ d.used_before \/ d.org # c.org

-----------------------------------------------------------------------------
(* backend/services/canva_service.py: polling of autofill and export jobs *)

\* Times are counted in sixteenths of a second, in which the delays of
\* 1, 1.5, 2.25, 3.375 and 5 seconds are whole numbers
TicksPerSecond == 2^4

Seconds(n) == n * TicksPerSecond

Min(a, b) == IF a <= b THEN a ELSE b

\* delay = 1.0
FirstDelay == Seconds(1)

\* delay * 1.5 without the ceiling
NextDelayUncapped(d) == (d * 3) \div 2

\* delay = min(delay * 1.5, 5.0)
NextDelay(d) == Min((d * 3) \div 2, Seconds(5))

WaitFunctions == {"wait_for_autofill", "wait_for_export"}

\* max_wait: none, a short one, and the 60 seconds of the callers
MaxWaits == {0, Seconds(3), Seconds(60)}

\* What the job endpoint reports; "" stands for an answer without a status
PollStatuses == {"in_progress", "success", "failed", ""}

\* get_autofill_job / get_export_job: resp.json(), or the exception of
\* requests.get or raise_for_status
PollJson(status) == [job |-> [status |-> status, urls |-> <<"https://export/1">>]]

\* How long a request takes
PollTimes == {0, Seconds(1)}

NoWaitOutcome == [kind |-> "none", value |-> <<>>, exc |-> "", polled |-> FALSE]

\* return result  /  return result.get("job", {}).get("urls", [])
WaitReturn(fn, result) == IF fn = "wait_for_autofill" THEN result ELSE result.job.urls

InitWait ==
    /\ wait_fn \in WaitFunctions
    /\ max_wait \in MaxWaits
    /\ wtime = 0
    /\ start = 0
    /\ delay = FirstDelay
    /\ wait_pc = "while"
    /\ last_status = "none"
    /\ slept = <<>>
    /\ wait_outcome = NoWaitOutcome
    /\ WaitOthersIdle

\* while time.time() - start < max_wait: ... ; raise TimeoutError
WaitWhile ==
    /\ wait_pc = "while"
    /\ IF wtime - start < max_wait
       THEN /\ wait_pc' = "poll"
            /\ UNCHANGED wait_outcome
       ELSE /\ wait_pc' = "done"
            /\ wait_outcome' = [kind |-> "raise", value |-> <<>>, exc |-> "TimeoutError",
                                polled |-> last_status # "none"]
    /\ UNCHANGED <<wait_fn, max_wait, start, wtime, delay, last_status, slept>>
    /\ WaitFrame

\* result = get_..._job(...), and the two tests of its status
WaitPoll ==
    /\ wait_pc = "poll"
    /\ \E took \in PollTimes, answer \in PollStatuses \cup {"HTTPError"} :
          /\ wtime' = wtime + took
          /\ IF answer = "HTTPError"
             THEN /\ wait_pc' = "done"
                  /\ wait_outcome' = [kind |-> "raise", value |-> <<>>, exc |-> "HTTPError",
                                      polled |-> TRUE]
                  /\ last_status' = "raised"
             ELSE /\ last_status' = PollJson(answer).job.status
                  /\ IF PollJson(answer).job.status = "success"
                     THEN /\ wait_pc' = "done"
                          /\ wait_outcome' = [kind |-> "return",
                                              value |-> WaitReturn(wait_fn, PollJson(answer)),
                                              exc |-> "", polled |-> TRUE]
                     ELSE IF PollJson(answer).job.status = "failed"
                     THEN /\ wait_pc' = "done"
                          /\ wait_outcome' = [kind |-> "raise", value |-> <<>>,
                                              exc |-> "RuntimeError", polled |-> TRUE]
                     ELSE /\ wait_pc' = "sleep"
                          /\ UNCHANGED wait_outcome
    /\ UNCHANGED <<wait_fn, max_wait, start, delay, slept>>
    /\ WaitFrame

\* time.sleep(delay); delay = min(delay * 1.5, 5.0)
WaitSleep ==
    /\ wait_pc = "sleep"
    /\ wtime' = wtime + delay
    /\ slept' = Append(slept, delay)
    /\ delay' = NextDelay(delay)
    /\ wait_pc' = "while"
    /\ UNCHANGED <<wait_fn, max_wait, start, last_status, wait_outcome>>
    /\ WaitFrame

NextWait == WaitWhile \/ WaitPoll \/ WaitSleep

SpecWait == InitWait /\ [][NextWait]_vars

\* The thread that runs the call is scheduled again and again, a request ends
\* within its timeout, and time.sleep returns
SpecWaitFair == SpecWait /\ WF_vars(NextWait)

\* The delays grow as the claim says: 1s first, each next one 1.5 times the one
\* before or the ceiling of 5s when that is less, and none above 5s
DelaysAsClaimed ==
    /\ Len(slept) > 0 => slept[1] = Seconds(1)
    /\ \A i \in 1..Len(slept) : slept[i] <= Seconds(5)
    /\ \A i \in 1..(Len(slept) - 1) :
          \/ 2 * slept[i + 1] = 3 * slept[i]
          \/ slept[i + 1] = Seconds(5) /\ 3 * slept[i] >= 2 * Seconds(5)

\* The call ends at the poll that reports success or failed, and with
\* TimeoutError only when max_wait has elapsed
EndsAsClaimed ==
    /\ wait_pc # "done" => last_status \notin {"success", "failed", "raised"}
    /\ wait_pc # "done" => wait_outcome = NoWaitOutcome
    /\ wait_pc = "done" /\ last_status = "success" =>
          /\ wait_outcome.kind = "return"
          /\ wait_outcome.value = IF wait_fn = "wait_for_autofill"
                                  THEN PollJson("success")
                                  ELSE <<"https://export/1">>
    /\ wait_pc = "done" /\ last_status = "failed" =>
          wait_outcome.kind = "raise" /\ wait_outcome.exc = "RuntimeError"
    /\ wait_pc = "done" /\ last_status \in {"in_progress", "", "none"} =>
          /\ wait_outcome.kind = "raise" /\ wait_outcome.exc = "TimeoutError"
          /\ wtime - start >= max_wait

-----------------------------------------------------------------------------
(* backend/routers/research.py and backend/services/research_service.py:
   research runs of one week_start (today) *)

STALE_RUNNING_MINUTES == 30

\* Requests and script runs of a behaviour
MaxRequests == 3

\* The clock moves by half the stale limit, or a minute more, up to a minute
\* past the limit twice over
ResearchTicks == {STALE_RUNNING_MINUTES \div 2, STALE_RUNNING_MINUTES \div 2 + 1}
ResearchHorizon == 2 * STALE_RUNNING_MINUTES + 2

NoWeek == [status |-> "none", created_at |-> 0, running_since |-> 0]

\* ResearchWeek(week_start=week_start, status="pending", org_id=org_id);
\* created_at is the server's now()
NewWeek(now) == [status |-> "pending", created_at |-> now, running_since |-> 0]

\* elapsed = datetime.utcnow() - (week.created_at or datetime.utcnow())
Elapsed(week, now) == now - week.created_at

\* _reset_if_stale
_reset_if_stale(week, now) ==
    IF week.status # "running"
    THEN week
    ELSE IF Elapsed(week, now) > STALE_RUNNING_MINUTES
         THEN [week EXCEPT !.status = "failed"]
         ELSE week

NoResponse ==
    [op |-> "", org_id |-> "", status |-> 0, detail |-> "", was_running |-> FALSE,
     ran_for |-> 0, reset |-> FALSE, scheduled |-> FALSE]

NoScriptRun == [active |-> FALSE, org_id |-> ""]

TriggerOps == {"trigger_research", "run_config"}

InitResearch ==
    /\ research_weeks = [o \in Orgs |-> NoWeek]
    /\ background_tasks = <<>>
    /\ script_run = NoScriptRun
    /\ utcnow = 0
    /\ requests_made = 0
    /\ last_response = NoResponse
    /\ ResOthersIdle

ResearchTick ==
    /\ \E d \in ResearchTicks :
          /\ utcnow + d <= ResearchHorizon
          /\ utcnow' = utcnow + d
    /\ UNCHANGED <<research_weeks, background_tasks, script_run, requests_made, last_response>>
    /\ ResFrame

\* The part trigger_research and run_config share: the lookup of the week of
\* (week_start, org_id), _reset_if_stale, the 409, the new row, add_task
Trigger(op, org_id, existing) ==
    Only({Only({
        IF existing.status # "none" /\ after.status = "running"
        THEN [week |-> after, tasks |-> background_tasks,
              response |-> [op |-> op, org_id |-> org_id, status |-> 409,
                            detail |-> "Research already running for this week",
                            was_running |-> existing.status = "running",
                            ran_for |-> utcnow - existing.running_since,
                            reset |-> FALSE, scheduled |-> FALSE]]
        ELSE [week |-> row,
              tasks |-> Append(background_tasks, [org_id |-> org_id, pc |-> "queued"]),
              response |-> [op |-> op, org_id |-> org_id, status |-> 200,
                            detail |-> "queued",
                            was_running |-> existing.status = "running",
                            ran_for |-> utcnow - existing.running_since,
                            reset |-> existing.status = "running",
                            scheduled |-> TRUE]]
        : row \in {IF existing.status = "none" THEN NewWeek(utcnow) ELSE after}})
        : after \in {IF existing.status = "none" THEN existing
                     ELSE _reset_if_stale(existing, utcnow)}})

\* POST /trigger and POST /configs/{config_id}/run; run_config answers 404
\* when the config is not one of the organisation's
TriggerRequest ==
    /\ requests_made < MaxRequests
    /\ requests_made' = requests_made + 1
    /\ \E op \in TriggerOps, org_id \in Orgs, config_found \in BOOLEAN :
          IF op = "run_config" /\ ~config_found
          THEN /\ last_response' = [NoResponse EXCEPT !.op = op, !.org_id = org_id,
                                       !.status = 404, !.detail = "Research config not found"]
               /\ UNCHANGED <<research_weeks, background_tasks>>
          ELSE \E r \in {Trigger(op, org_id, research_weeks[org_id])} :
                  /\ research_weeks' = [research_weeks EXCEPT ![org_id] = r.week]
                  /\ background_tasks' = r.tasks
                  /\ last_response' = r.response
    /\ UNCHANGED <<script_run, utcnow>>
    /\ ResFrame

\* _run_research_background begins on a worker: db = SessionLocal()
BackgroundStart ==
    /\ \E i \in 1..Len(background_tasks) :
          /\ background_tasks[i].pc = "queued"
          /\ background_tasks' = [background_tasks EXCEPT ![i].pc = "started"]
    /\ UNCHANGED <<research_weeks, script_run, utcnow, requests_made, last_response>>
    /\ ResFrame

\* The keyword arguments run_research_pipeline accepts, and the ones
\* _run_research_background passes
PipelineParameters == {"db", "week_start", "niches", "countries"}
BackgroundArguments ==
    {"db", "week_start", "niches", "countries", "org_id", "decision_makers", "keywords"}

\* _run_research_background: the call of run_research_pipeline. An argument
\* the function has no parameter for is a TypeError, which the except clause
\* logs; the finally clause closes the session
BackgroundCall ==
    /\ \E i \in 1..Len(background_tasks) :
          /\ background_tasks[i].pc = "started"
          /\ IF BackgroundArguments \subseteq PipelineParameters
             THEN /\ research_weeks[background_tasks[i].org_id].status # "none"
                  /\ research_weeks' =
                        [research_weeks EXCEPT ![background_tasks[i].org_id] =
                            [@ EXCEPT !.status = "running", !.running_since = utcnow]]
             ELSE UNCHANGED research_weeks
          /\ background_tasks' = [j \in 1..(Len(background_tasks) - 1) |->
                                    IF j < i THEN background_tasks[j]
                                    ELSE background_tasks[j + 1]]
    /\ UNCHANGED <<script_run, utcnow, requests_made, last_response>>
    /\ ResFrame

\* scripts/run_weekly_research.py: run_research_pipeline(db, week_start, ...).
\* The week is the first row of that week_start, whichever organisation's;
\* without a row the new one has no org_id and the commit fails
ScriptStart ==
    /\ requests_made < MaxRequests
    /\ ~script_run.active
    /\ requests_made' = requests_made + 1
    /\ IF \A o \in Orgs : research_weeks[o].status = "none"
       THEN UNCHANGED <<research_weeks, script_run>>
       ELSE \E o \in {x \in Orgs : research_weeks[x].status # "none"} :
               /\ research_weeks' = [research_weeks EXCEPT ![o] =
                     [@ EXCEPT !.status = "running", !.running_since = utcnow]]
               /\ script_run' = [active |-> TRUE, org_id |-> o]
    /\ UNCHANGED <<background_tasks, utcnow, last_response>>
    /\ ResFrame

\* run_research_pipeline: the end of the run, completed or failed
PipelineEnd ==
    /\ script_run.active
    /\ \E status \in {"completed", "failed"} :
          research_weeks' = [research_weeks EXCEPT ![script_run.org_id].status = status]
    /\ script_run' = NoScriptRun
    /\ UNCHANGED <<background_tasks, utcnow, requests_made, last_response>>
    /\ ResFrame

NextResearch ==
    \/ ResearchTick
    \/ TriggerRequest
    \/ BackgroundStart
    \/ BackgroundCall
    \/ ScriptStart
    \/ PipelineEnd

SpecResearch == InitResearch /\ [][NextResearch]_vars

\* The runs of an organisation's week that are under way: the background
\* tasks of its trigger requests that a worker started and that have not ended
RunsUnderWay(org_id) ==
    Cardinality({i \in 1..Len(background_tasks) :
                    background_tasks[i].org_id = org_id /\ background_tasks[i].pc = "started"})

\* C14: for one organisation and week at most one research run is under way at
\* any time, whatever the order of trigger requests and starts of background tasks.
C14_SingleRun == \A org_id \in Orgs : RunsUnderWay(org_id) <= 1

\* C15: a trigger resets a running week only when the run has been running for
\* more than 30 minutes; a run that entered running at most 30 minutes ago is
\* left alone and the trigger is answered 409.
C15_ResetOnlyWhenStale ==
    /\ last_response.reset => last_response.ran_for > STALE_RUNNING_MINUTES
    /\ last_response.was_running /\ last_response.ran_for <= STALE_RUNNING_MINUTES =>
          last_response.status = 409

-----------------------------------------------------------------------------
(* backend/services/linkedin_analytics.py: sync_metrics *)

\* Posts of one fetch
MaxPosts == 3

\* Days on which posts were published; the last one is today
MaxDays == 2

MsPerDay == 24 * 60 * 60 * 1000

Today == MaxDays

\* sessionmaker(autocommit=False, autoflush=False, bind=engine)
Autoflush == FALSE

LinkedInOrg == "o1"

\* publishedAt in ms: absent (0), or a time in the morning or later on a day
PostTimes == {0} \cup {d * MsPerDay + ms : d \in 1..MaxDays, ms \in {0, 60 * 1000}}

Posts ==
    [publishedAt : PostTimes, impressionsCount : {0, 10}, likeCount : {1},
     commentCount : {2}, shareCount : {0}, clickCount : {3}]

\* _extract_date: datetime.utcfromtimestamp(ts / 1000).date(), or date.today()
_extract_date(post) ==
    IF post.publishedAt # 0 THEN post.publishedAt \div MsPerDay ELSE Today

MetricKey(row) == <<row.org_id, row.platform, row.date, row.page_path>>

\* PlatformMetric(org_id=..., platform="linkedin", date=post_date, page_path="/", ...)
NewMetric(org_id, post) ==
    [org_id |-> org_id, platform |-> "linkedin", date |-> _extract_date(post),
     page_path |-> "/", impressions |-> post.impressionsCount,
     engagement |-> post.likeCount + post.commentCount + post.shareCount,
     clicks |-> post.clickCount]

\* existing.impressions = (existing.impressions or 0) + impressions, ...
AddToMetric(existing, post) ==
    [existing EXCEPT !.impressions = @ + post.impressionsCount,
                     !.engagement = @ + post.likeCount + post.commentCount + post.shareCount,
                     !.clicks = @ + post.clickCount]

\* db.query(PlatformMetric).filter(...).first(): the rows of the table with
\* that key, as the session holds them, and with autoflush the added objects
QueryMetric(key) ==
    {IF MetricKey(r) \in DOMAIN db_loaded THEN db_loaded[MetricKey(r)] ELSE r :
        r \in {x \in platform_metrics : MetricKey(x) = key}}
    \cup (IF Autoflush
          THEN {db_new[i] : i \in {j \in 1..Len(db_new) : MetricKey(db_new[j]) = key}}
          ELSE {})

NoSync == [kind |-> "none", exc |-> "", synced |-> 0]

\* The table before the sync: empty, or one row (uq_platform_metric holds)
ExistingTables ==
    {{}} \cup {{[org_id |-> LinkedInOrg, platform |-> "linkedin", date |-> d, page_path |-> "/",
                 impressions |-> 100, engagement |-> 7, clicks |-> 1]} : d \in 1..MaxDays}

PostLists == UNION {[1..n -> Posts] : n \in 1..MaxPosts}

InitLinkedIn ==
    /\ platform_metrics \in ExistingTables
    /\ li_before = platform_metrics
    /\ db_new = <<>>
    /\ db_loaded = <<>>
    /\ li_posts \in PostLists
    /\ li_pos = 1
    /\ li_result = NoSync
    /\ LiOthersIdle

\* One pass of "for post in posts"
SyncPost ==
    /\ li_result.kind = "none" /\ li_pos <= Len(li_posts)
    /\ \E key \in {MetricKey(NewMetric(LinkedInOrg, li_posts[li_pos]))} :
          IF QueryMetric(key) # {}
          THEN /\ \E existing \in QueryMetric(key) :
                     db_loaded' = [k \in DOMAIN db_loaded \cup {key} |->
                                      IF k = key THEN AddToMetric(existing, li_posts[li_pos])
                                      ELSE db_loaded[k]]
               /\ UNCHANGED db_new
          ELSE /\ db_new' = Append(db_new, NewMetric(LinkedInOrg, li_posts[li_pos]))
               /\ UNCHANGED db_loaded
    /\ li_pos' = li_pos + 1
    /\ li_result' = [li_result EXCEPT !.synced = @ + 1]
    /\ UNCHANGED <<platform_metrics, li_posts, li_before>>
    /\ LiFrame

\* The table after the flush: the loaded rows updated, the added ones inserted
Flushed ==
    {IF MetricKey(r) \in DOMAIN db_loaded THEN db_loaded[MetricKey(r)] ELSE r :
        r \in platform_metrics}
    \cup {db_new[i] : i \in 1..Len(db_new)}

\* Two inserts of one key, or an insert of a key the table holds
ViolatesUnique ==
    \/ \E i, j \in 1..Len(db_new) : i # j /\ MetricKey(db_new[i]) = MetricKey(db_new[j])
    \/ \E i \in 1..Len(db_new), r \in platform_metrics : MetricKey(db_new[i]) = MetricKey(r)

\* db.commit(), and the return
SyncCommit ==
    /\ li_result.kind = "none" /\ li_pos > Len(li_posts)
    /\ IF ViolatesUnique
       THEN /\ li_result' = [li_result EXCEPT !.kind = "raised", !.exc = "IntegrityError"]
            /\ UNCHANGED platform_metrics
       ELSE /\ li_result' = [li_result EXCEPT !.kind = "returned"]
            /\ platform_metrics' = Flushed
    /\ db_new' = <<>>
    /\ db_loaded' = <<>>
    /\ UNCHANGED <<li_posts, li_pos, li_before>>
    /\ LiFrame

NextLinkedIn == SyncPost \/ SyncCommit

SpecLinkedIn == InitLinkedIn /\ [][NextLinkedIn]_vars

RECURSIVE SumOver(_, _, _)
\* Sum of a count over the posts of a date
SumOver(posts, date, count) ==
    IF posts = <<>> THEN 0
    ELSE (IF _extract_date(Head(posts)) = date THEN Head(posts)[count] ELSE 0)
         + SumOver(Tail(posts), date, count)

RowsOf(table, date) ==
    {r \in table : MetricKey(r) = <<LinkedInOrg, "linkedin", date, "/">>}

\* C16: after a sync there is exactly one row per date of a fetched post, and
\* where no row existed before, it holds the sums over the posts of that date.
C16_OneRowPerDate ==
    li_result.kind # "none" =>
        \A i \in 1..Len(li_posts) :
            \E date \in {_extract_date(li_posts[i])} :
                /\ Cardinality(RowsOf(platform_metrics, date)) = 1
                /\ RowsOf(li_before, date) = {} =>
                      \A r \in RowsOf(platform_metrics, date) :
                          /\ r.impressions = SumOver(li_posts, date, "impressionsCount")
                          /\ r.engagement = SumOver(li_posts, date, "likeCount")
                                            + SumOver(li_posts, date, "commentCount")
                                            + SumOver(li_posts, date, "shareCount")
                          /\ r.clicks = SumOver(li_posts, date, "clickCount")

-----------------------------------------------------------------------------
(* backend/services/figma_render_service.py: the SVG cache and the
   organisations that render through it *)

_CACHE_MAX_AGE_SECONDS == 3600

\* Render calls of a behaviour
MaxFigmaRenders == 3

FigmaHorizon == _CACHE_MAX_AGE_SECONDS + 1

\* The Figma files, each in the account of one organisation, and the frame
FigmaFiles == {"FA", "FB"}
FigmaFrames == {"1:2"}
FileOwner(file_key) == IF file_key = "FA" THEN "o1" ELSE "o2"

\* The personal access token an organisation stored
TokenOf(org_id) == "figd_" \o org_id

\* export_frame_svg(token, file_key, node_id) answers for the files the
\* token's account can read
CanExport(token, file_key) == \E o \in Orgs : token = TokenOf(o) /\ FileOwner(file_key) = o

FrameSvg(file_key, node_id) == "<svg " \o file_key \o " " \o node_id \o "/>"

\* _cache_key: the md5 of "file_key:node_id", here the hashed text itself
_cache_key(file_key, node_id) == file_key \o ":" \o node_id

NoCacheFile == [content |-> "", mtime |-> 0, fetched_by |-> ""]

\* _get_cached_svg: the content, or None ("") without a file or with one
\* older than the maximum age, which is removed
_get_cached_svg(cache, file_key, node_id, now) ==
    Only({
        IF name \notin DOMAIN cache THEN [svg |-> "", cache |-> cache, by |-> ""]
        ELSE IF now - cache[name].mtime > _CACHE_MAX_AGE_SECONDS
        THEN [svg |-> "", by |-> "",
              cache |-> [k \in DOMAIN cache \ {name} |-> cache[k]]]
        ELSE [svg |-> cache[name].content, cache |-> cache, by |-> cache[name].fetched_by]
        : name \in {_cache_key(file_key, node_id)}})

\* _save_cached_svg
_save_cached_svg(cache, file_key, node_id, svg_content, now, org_id) ==
    [k \in DOMAIN cache \cup {_cache_key(file_key, node_id)} |->
        IF k = _cache_key(file_key, node_id)
        THEN [content |-> svg_content, mtime |-> now, fetched_by |-> org_id]
        ELSE cache[k]]

NoFigmaSvg(org_id, file_key, node_id, cache) ==
    [org_id |-> org_id, file_key |-> file_key, node_id |-> node_id, svg |-> "",
     from_cache |-> FALSE, fetched_by |-> "", cache |-> cache]

\* render_figma_content up to the SVG: the configuration checks, the cache,
\* and the export with the organisation's token
FigmaSvg(org_id, token, file_key, node_id, cache, now) ==
    IF token = "" \/ file_key = "" \/ node_id = ""
    THEN NoFigmaSvg(org_id, file_key, node_id, cache)
    ELSE Only({
        IF cached.svg # ""
        THEN [org_id |-> org_id, file_key |-> file_key, node_id |-> node_id,
              svg |-> cached.svg, from_cache |-> TRUE, fetched_by |-> cached.by,
              cache |-> cached.cache]
        ELSE IF ~CanExport(token, file_key)
        THEN NoFigmaSvg(org_id, file_key, node_id, cached.cache)
        ELSE [org_id |-> org_id, file_key |-> file_key, node_id |-> node_id,
              svg |-> FrameSvg(file_key, node_id), from_cache |-> FALSE,
              fetched_by |-> org_id,
              cache |-> _save_cached_svg(cached.cache, file_key, node_id,
                                         FrameSvg(file_key, node_id), now, org_id)]
        : cached \in {_get_cached_svg(cache, file_key, node_id, now)}})

NoFigmaCall ==
    [org_id |-> "", file_key |-> "", node_id |-> "", svg |-> "", from_cache |-> FALSE,
     fetched_by |-> ""]

InitFigma ==
    /\ figma_config \in [Orgs -> {"", "token"}]
    /\ figma_cache = [k \in {} |-> NoCacheFile]
    /\ fig_time = 0
    /\ fig_renders = 0
    /\ fig_last = NoFigmaCall
    /\ FigOthersIdle

FigmaTick ==
    /\ \E d \in {_CACHE_MAX_AGE_SECONDS, _CACHE_MAX_AGE_SECONDS + 1} :
          /\ fig_time + d <= FigmaHorizon
          /\ fig_time' = fig_time + d
    /\ UNCHANGED <<figma_config, figma_cache, fig_renders, fig_last>>
    /\ FigFrame

\* A render of an organisation's content item whose template names the frame
FigmaRender ==
    /\ fig_renders < MaxFigmaRenders
    /\ fig_renders' = fig_renders + 1
    /\ \E org_id \in Orgs, file_key \in FigmaFiles \cup {""}, node_id \in FigmaFrames :
          \E r \in {FigmaSvg(org_id,
                             IF figma_config[org_id] = "" THEN "" ELSE TokenOf(org_id),
                             file_key, node_id, figma_cache, fig_time)} :
              /\ figma_cache' = r.cache
              /\ fig_last' = [org_id |-> r.org_id, file_key |-> r.file_key,
                              node_id |-> r.node_id, svg |-> r.svg,
                              from_cache |-> r.from_cache, fetched_by |-> r.fetched_by]
    /\ UNCHANGED <<figma_config, fig_time>>
    /\ FigFrame

NextFigma == FigmaTick \/ FigmaRender

SpecFigma == InitFigma /\ [][NextFigma]_vars

\* C17: a cached SVG is served only to the organisation whose token fetched
\* it, and an organisation gets a frame's SVG only if its own token can export
\* that frame.
C17_CacheIsolation ==
    /\ fig_last.from_cache => fig_last.fetched_by = fig_last.org_id
    /\ fig_last.svg # "" => CanExport(TokenOf(fig_last.org_id), fig_last.file_key)

=============================================================================
